---- MODULE Spec2Model ----
(***************************************************************************)
(* Model of the polling, caching and display-rotation scheduler of the     *)
(* Galactic Unicorn flight tracker (src/main.py, class PlaneTracker).      *)
(*                                                                         *)
(* Text values (callsigns, ICAO ids, airport codes) are sequences of       *)
(* one-character strings, so that strip(), upper() and slicing are         *)
(* computed.  Python's None for such a value is the sentinel None below;   *)
(* for the fields of an API record only truthiness is tested by the code,  *)
(* so a null field and an empty string are both the empty sequence.        *)
(* Times are whole seconds as returned by time.time().                     *)
(***************************************************************************)
EXTENDS Integers, Sequences, FiniteSets, TLC

\* ------------------------------------------------------------------------
\* Bounds of the model
\* ------------------------------------------------------------------------
\* time.time() at construction (seconds; far from the 0 the code uses as
\* "never")
BootTime == 100
\* seconds of behaviour explored after boot by the resolver specification
RouteMaxElapsed == 10
\* longest list handed to merge_display_queue in the merge specification
MaxFresh == 3

\* ------------------------------------------------------------------------
\* Text helpers
\* ------------------------------------------------------------------------
None == <<"None">>

LowerChars == <<"a","b","c","d","e","f","g","h","i","j","k","l","m",
                "n","o","p","q","r","s","t","u","v","w","x","y","z">>

UpperChars == <<"A","B","C","D","E","F","G","H","I","J","K","L","M",
                "N","O","P","Q","R","S","T","U","V","W","X","Y","Z">>

Whitespace == {" "}

UpperChar(c) ==
    IF \E i \in 1..Len(LowerChars) : LowerChars[i] = c
    THEN UpperChars[CHOOSE i \in 1..Len(LowerChars) : LowerChars[i] = c]
    ELSE c

\* str.upper()
Upper(s) == [i \in 1..Len(s) |-> UpperChar(s[i])]

RECURSIVE LStrip(_)
LStrip(s) ==
    IF s # <<>> /\ Head(s) \in Whitespace THEN LStrip(Tail(s)) ELSE s

RECURSIVE RStrip(_)
RStrip(s) ==
    IF s # <<>> /\ s[Len(s)] \in Whitespace
    THEN RStrip(SubSeq(s, 1, Len(s) - 1))
    ELSE s

\* str.strip()
Strip(s) == RStrip(LStrip(s))

\* s[:3]
Prefix3(s) == SubSeq(s, 1, IF Len(s) < 3 THEN Len(s) ELSE 3)

\* Python truthiness of a text value
Truthy(s) == s # None /\ s # <<>>

\* a or b
Or(a, b) == IF Truthy(a) THEN a ELSE b

Min(a, b) == IF a <= b THEN a ELSE b

\* the entries of s at the positions in I, in increasing order of position
RECURSIVE Pick(_, _, _)
Pick(s, I, i) ==
    IF i > Len(s) THEN <<>>
    ELSE (IF i \in I THEN <<s[i]>> ELSE <<>>) \o Pick(s, I, i + 1)

Range(s) == {s[i] : i \in 1..Len(s)}

SeqsUpTo(S, n) == UNION {[1..k -> S] : k \in 0..n}

\* ------------------------------------------------------------------------
\* Flights
\* ------------------------------------------------------------------------
cs_BAW1 == <<"B","A","W","1">>
cs_KLM2 == <<"K","L","M","2">>
cs_RYR3 == <<"R","Y","R","3">>
id_a1 == <<"a","1">>
id_b2 == <<"b","2">>

\* plane dict built in fetch_planes (latitude/longitude are carried by the
\* distance computed from them)
Plane(icao, cs, alt, dist, gnd) ==
    [icao24 |-> icao, callsign |-> cs, altitude |-> alt,
     distance |-> dist, on_ground |-> gnd]

\* key_of(p): p.get('icao24') or p.get('callsign')
key_of(p) == Or(p.icao24, p.callsign)

KeysOf(s) == {key_of(s[i]) : i \in 1..Len(s)}

\* ------------------------------------------------------------------------
\* merge_display_queue
\* ------------------------------------------------------------------------
\* first loop: the set `seen` of non-empty keys of new_list
SeenKeys(new_list) == {k \in KeysOf(new_list) : Truthy(k)}

\* a slip in the second loop: the key just appended is not remembered
RECURSIVE AppendNewForgetful(_, _, _)
AppendNewForgetful(filtered, existing, rest) ==
    IF rest = <<>> THEN filtered
    ELSE LET p == Head(rest)
             k == key_of(p)
         IN  IF Truthy(k) /\ k \notin existing
             THEN AppendNewForgetful(Append(filtered, p), existing, Tail(rest))
             ELSE AppendNewForgetful(filtered, existing, Tail(rest))

\* second loop: append brand-new planes in order
RECURSIVE AppendNew(_, _, _)
AppendNew(filtered, existing, rest) ==
    IF rest = <<>> THEN filtered
    ELSE LET p == Head(rest)
             k == key_of(p)
         IN  IF Truthy(k) /\ k \notin existing
             THEN AppendNew(Append(filtered, p), existing \cup {k}, Tail(rest))
             ELSE AppendNew(filtered, existing, Tail(rest))

\* a slip in the filter: a surviving entry takes the data of the new list
FilterQueueRefreshing(queue, new_list) ==
    LET kept == SelectSeq(queue, LAMBDA p : key_of(p) \in SeenKeys(new_list))
    IN  [i \in 1..Len(kept) |->
            new_list[CHOOSE j \in 1..Len(new_list) :
                        /\ key_of(new_list[j]) = key_of(kept[i])
                        /\ \A k \in 1..(j - 1) :
                              key_of(new_list[k]) # key_of(kept[i])]]

\* a slip in the filter: flights missing from the new list are not dropped
FilterQueueKeepAll(queue, new_list) == queue

\* filtered = [p for p in self.display_queue if key_of(p) in seen]
FilterQueue(queue, new_list) ==
    LET seen == SeenKeys(new_list)
    IN  SelectSeq(queue, LAMBDA p : key_of(p) \in seen)

merge_display_queue(queue, new_list) ==
    LET filtered == FilterQueue(queue, new_list)
    IN  AppendNew(filtered, KeysOf(filtered), new_list)

\* ------------------------------------------------------------------------
\* Dictionaries: functions whose domain is the set of keys present
\* ------------------------------------------------------------------------
EmptyDict == <<>>

DictGet(d, k, default) == IF k \in DOMAIN d THEN d[k] ELSE default

DictPut(d, k, v) == [x \in (DOMAIN d) \cup {k} |-> IF x = k THEN v ELSE d[x]]

\* ------------------------------------------------------------------------
\* Route resolver (ADSBdb lookups with TTL cache and per-callsign throttle)
\* ------------------------------------------------------------------------
\* self.ROUTE_TTL: optional setting of SECRETS.py (default 1800); the model
\* runs the configuration ROUTE_TTL = 8 so that expiry falls inside the
\* explored time span and outside the 5-second throttle window
ROUTE_TTL == 8

\* fetch_route: "if now - last < 5"
ROUTE_COOLDOWN == 5

\* a slip in the normalisation: the spelling is kept
norm_callsign_raw(callsign) == Or(callsign, <<>>)

\* _norm_callsign: (callsign or "").strip().upper()
norm_callsign(callsign) == Upper(Strip(Or(callsign, <<>>)))

\* a slip in the expiry test: ">=" for ">"
get_cached_route_eager(rc, callsign, now) ==
    LET c == norm_callsign(callsign)
    IN  IF ~Truthy(c) THEN None
        ELSE IF c \notin DOMAIN rc THEN None
        ELSE IF now - rc[c][2] >= ROUTE_TTL THEN None
        ELSE rc[c][1]

\* get_cached_route, reading the route cache rc at time now
get_cached_route(rc, callsign, now) ==
    LET c == norm_callsign(callsign)
    IN  IF ~Truthy(c) THEN None
        ELSE IF c \notin DOMAIN rc THEN None
        ELSE IF now - rc[c][2] > ROUTE_TTL THEN None
        ELSE rc[c][1]

\* the three dictionaries of the resolver
RouteState(rc, ic, lt) ==
    [route_cache |-> rc, callsign_iata_cache |-> ic,
     route_last_fetch_times |-> lt]

\* what a resolver call yields: its return value, the dictionaries it
\* leaves, whether it made a network request and how long that took
RouteOutcome(result, rs, attempted, elapsed) ==
    [result |-> result, rs |-> rs, attempted |-> attempted,
     elapsed |-> elapsed]

\* a slip in the throttle: the attempt time is recorded only on a 200 answer
fetch_route_late_stamp(rs, callsign, now, resp, delay) ==
    LET c    == norm_callsign(callsign)
        last == DictGet(rs.route_last_fetch_times, c, 0)
        lt2  == DictPut(rs.route_last_fetch_times, c, now)
    IN  IF now - last < ROUTE_COOLDOWN
        THEN RouteOutcome(DictGet(rs.route_cache, c, <<None, 0>>)[1],
                          rs, FALSE, 0)
        ELSE IF resp.kind # "ok"
        THEN RouteOutcome(None, rs, TRUE, delay)
        ELSE LET o   == Upper(Or(resp.origin, <<>>))
                 d   == Upper(Or(resp.destination, <<>>))
                 rc2 == IF Truthy(o) /\ Truthy(d)
                        THEN DictPut(rs.route_cache, c, <<o \o <<">">> \o d, now>>)
                        ELSE rs.route_cache
                 cs  == Upper(Or(resp.callsign_iata, <<>>))
                 ic2 == IF Truthy(cs)
                        THEN DictPut(rs.callsign_iata_cache, c, <<cs, now>>)
                        ELSE rs.callsign_iata_cache
             IN  RouteOutcome(DictGet(rc2, c, <<None, 0>>)[1],
                              RouteState(rc2, ic2, lt2), TRUE, delay)

\* fetch_route called at time now; resp is what the route API does if it is
\* asked (an exception, a non-200 status, or a 200 body), delay how long it
\* takes
fetch_route(rs, callsign, now, resp, delay) ==
    LET c    == norm_callsign(callsign)
        last == DictGet(rs.route_last_fetch_times, c, 0)
        lt2  == DictPut(rs.route_last_fetch_times, c, now)
        rs2  == RouteState(rs.route_cache, rs.callsign_iata_cache, lt2)
    IN  IF now - last < ROUTE_COOLDOWN
        THEN RouteOutcome(DictGet(rs.route_cache, c, <<None, 0>>)[1],
                          rs, FALSE, 0)
        ELSE IF resp.kind # "ok"
        THEN RouteOutcome(None, rs2, TRUE, delay)
        ELSE LET o   == Upper(Or(resp.origin, <<>>))
                 d   == Upper(Or(resp.destination, <<>>))
                 rc2 == IF Truthy(o) /\ Truthy(d)
                        THEN DictPut(rs.route_cache, c, <<o \o <<">">> \o d, now>>)
                        ELSE rs.route_cache
                 cs  == Upper(Or(resp.callsign_iata, <<>>))
                 ic2 == IF Truthy(cs)
                        THEN DictPut(rs.callsign_iata_cache, c, <<cs, now>>)
                        ELSE rs.callsign_iata_cache
             IN  RouteOutcome(DictGet(rc2, c, <<None, 0>>)[1],
                              RouteState(rc2, ic2, lt2), TRUE, delay)

get_route(rs, callsign, now, resp, delay) ==
    LET route == get_cached_route(rs.route_cache, callsign, now)
    IN  IF route # None
        THEN RouteOutcome(route, rs, FALSE, 0)
        ELSE fetch_route(rs, callsign, now, resp, delay)

\* a slip in the freshness test: the age is not looked at
FreshIataAnyAge(ic, norm, now) ==
    /\ norm \in DOMAIN ic
    /\ Truthy(ic[norm][1])

\* "if item: cs, ts = item; if time.time() - ts <= self.ROUTE_TTL and cs"
FreshIata(ic, norm, now) ==
    /\ norm \in DOMAIN ic
    /\ now - ic[norm][2] <= ROUTE_TTL
    /\ Truthy(ic[norm][1])

get_display_callsign(rs, callsign, now, resp, delay) ==
    IF ~Truthy(callsign) THEN RouteOutcome(<<>>, rs, FALSE, 0)
    ELSE LET norm == norm_callsign(callsign)
         IN  IF FreshIata(rs.callsign_iata_cache, norm, now)
             THEN RouteOutcome(rs.callsign_iata_cache[norm][1], rs, FALSE, 0)
             ELSE LET f == fetch_route(rs, norm, now, resp, delay)
                  IN  IF FreshIata(f.rs.callsign_iata_cache, norm,
                                   now + f.elapsed)
                      THEN RouteOutcome(f.rs.callsign_iata_cache[norm][1],
                                        f.rs, f.attempted, f.elapsed)
                      ELSE RouteOutcome(norm, f.rs, f.attempted, f.elapsed)

\* ------------------------------------------------------------------------
\* Configuration (SECRETS.py) and fixed settings of PlaneTracker
\* ------------------------------------------------------------------------
\* SEARCH_RADIUS_KM
SEARCH_RADIUS_KM == 15

ALTITUDE_FILTER_MIN == 0

ALTITUDE_FILTER_MAX == 15000

SHOW_GROUND_AIRCRAFT == FALSE

\* self.MAX_PLANES: optional setting (default 24); the model runs the
\* configuration MAX_PLANES = 2 so that the cap is reached
MAX_PLANES == 2

\* self.API_INTERVAL = int(API_UPDATE_INTERVAL); the model runs the
\* configuration API_UPDATE_INTERVAL = 2 so that several polls fall inside
\* the explored time span
API_INTERVAL == 2

\* self.LOGOS_SYNC_INTERVAL
LOGOS_SYNC_INTERVAL == 3600

\* self.NTP_SYNC_INTERVAL
NTP_SYNC_INTERVAL == 24 * 60 * 60

\* self.NIGHT_START_HOUR, self.NIGHT_END_HOUR (defaults)
NIGHT_START_HOUR == 0

NIGHT_END_HOUR == 8

\* is_commercial_flight: "if altitude < 3000"
COMMERCIAL_MIN_ALTITUDE == 3000

\* fetch_planes: delay after 401 and 503
BACKOFF_SHORT == 60

\* fetch_planes: delay after 403 and 429
BACKOFF_LONG == 300

\* get_oauth_client_token: "- 300  # Refresh 5 min early"
TOKEN_MARGIN == 300

\* get_oauth_client_token: token_data.get('expires_in', 1800)
TOKEN_DEFAULT_LIFETIME == 1800

\* get_oauth_user_token: "time.time() + 1500"
USER_TOKEN_LIFETIME == 1500

\* draw_info_display: "if current_time - self.last_frame_time >= 4"
FRAME_INTERVAL == 4

\* _frame_cycle_index: "self.frame_index % 5"
FRAME_CYCLE == 5

\* draw_info_display: "plane_cycle * 4 + cycle"
FLIGHTS_PER_CYCLE == 4

\* run: "self.count_overlay_until = time.time() + 5"
COUNT_OVERLAY_SECONDS == 5

Code3(a, b, c) == <<a, b, c>>

\* self.commercial_airlines
commercial_airlines ==
    { Code3("B","A","W"), Code3("V","I","R"), Code3("E","Z","Y"),
      Code3("R","Y","R"), Code3("U","A","L"), Code3("A","A","L"),
      Code3("D","A","L"), Code3("J","B","U"), Code3("A","F","R"),
      Code3("D","L","H"), Code3("K","L","M"), Code3("I","B","E"),
      Code3("S","A","S"), Code3("U","A","E"), Code3("E","T","D"),
      Code3("Q","T","R"), Code3("S","V","A"), Code3("T","H","Y"),
      Code3("S","I","A"), Code3("C","P","A"), Code3("J","A","L"),
      Code3("A","N","A"), Code3("Q","F","A"), Code3("A","C","A"),
      Code3("W","J","A"), Code3("T","A","M"), Code3("L","A","N") }

cs_Unknown == <<"U","n","k","n","o","w","n">>

\* ------------------------------------------------------------------------
\* Regional local time
\* ------------------------------------------------------------------------
\* hour field of _uk_localtime() at epoch second t, outside the summer
\* offset period
uk_localtime_hour(t) == (t \div 3600) % 24

\* a slip in the night test: the first hour of the window left out
NightHourLate(hour) == NIGHT_START_HOUR < hour /\ hour < NIGHT_END_HOUR

\* update_display: NIGHT_START_HOUR <= hour < NIGHT_END_HOUR
NightHour(hour) == NIGHT_START_HOUR <= hour /\ hour < NIGHT_END_HOUR

\* a night test that lets the window wrap over midnight
NightWindowWrapping(start_hour, end_hour, hour) ==
    IF start_hour < end_hour
    THEN start_hour <= hour /\ hour < end_hour
    ELSE hour >= start_hour \/ hour < end_hour

\* line 1342 with the window the configuration gives (lines 113-120)
NightWindow(start_hour, end_hour, hour) ==
    start_hour <= hour /\ hour < end_hour

\* ------------------------------------------------------------------------
\* Auth token manager
\* ------------------------------------------------------------------------
NoToken == "None"

AuthOutcome(result, tok, exp, requested, elapsed) ==
    [result |-> result, auth_token |-> tok, token_expires |-> exp,
     requested |-> requested, elapsed |-> elapsed]

\* get_oauth_client_token: aresp is what the token endpoint does
get_oauth_client_token(tok, exp, now, aresp, delay) ==
    IF aresp.kind = "ok" /\ aresp.token # NoToken
    THEN LET expires_in == IF aresp.has_expires_in THEN aresp.expires_in
                           ELSE TOKEN_DEFAULT_LIFETIME
         IN  AuthOutcome(aresp.token, aresp.token,
                         now + delay + expires_in - TOKEN_MARGIN, TRUE, delay)
    ELSE AuthOutcome(NoToken, tok, exp, TRUE, delay)

\* get_oauth_user_token
get_oauth_user_token(tok, exp, now, aresp, delay) ==
    IF aresp.kind = "ok" /\ aresp.token # NoToken
    THEN AuthOutcome(aresp.token, aresp.token,
                     now + delay + USER_TOKEN_LIFETIME, TRUE, delay)
    ELSE AuthOutcome(NoToken, tok, exp, TRUE, delay)

\* a slip in the cache test: the cached token is never used
TokenFreshNever(tok, exp, now) == FALSE

\* a slip in the cache test: "<=" for "<"
TokenFreshLate(tok, exp, now) == tok # NoToken /\ now <= exp

\* line 908: "if self.auth_token and current_time < self.token_expires"
TokenFresh(tok, exp, now) == tok # NoToken /\ now < exp

\* get_auth_token under credential mode `mode` ("client": client id and
\* secret configured; "user": username and password; "none": neither)
get_auth_token(tok, exp, now, mode, aresp, delay) ==
    IF TokenFresh(tok, exp, now)
    THEN AuthOutcome(tok, tok, exp, FALSE, 0)
    ELSE IF mode = "client"
    THEN get_oauth_client_token(tok, exp, now, aresp, delay)
    ELSE IF mode = "user"
    THEN get_oauth_user_token(tok, exp, now, aresp, delay)
    ELSE AuthOutcome(NoToken, tok, exp, FALSE, 0)

\* ------------------------------------------------------------------------
\* Position fetcher
\* ------------------------------------------------------------------------
\* a state vector of the position API: state[0] icao24, state[1] callsign,
\* state[5]/state[6] position (present or null; carried as the distance
\* from home that haversine_distance gives), state[7] altitude, state[8]
\* on-ground flag
StateVector(icao, cs, pos, dist, alt, gnd) ==
    [icao24 |-> icao, callsign |-> cs, has_position |-> pos,
     distance |-> dist, altitude |-> alt, on_ground |-> gnd]

\* the plane dict of lines 1106-1116
MakePlane(state) ==
    Plane(state.icao24,
          IF Truthy(state.callsign) THEN Strip(state.callsign) ELSE cs_Unknown,
          state.altitude, state.distance, state.on_ground)

is_commercial_flight(plane) ==
    LET callsign == Strip(plane.callsign)
    IN  /\ Truthy(callsign)
        /\ callsign # cs_Unknown
        /\ Upper(Prefix3(callsign)) \in commercial_airlines
        /\ ~(plane.altitude < COMMERCIAL_MIN_ALTITUDE)
        /\ ~plane.on_ground

\* the tests of lines 1098-1119 on one state vector
AcceptState(state) ==
    /\ state.has_position
    /\ state.distance <= SEARCH_RADIUS_KM
    /\ ALTITUDE_FILTER_MIN <= state.altitude
    /\ state.altitude <= ALTITUDE_FILTER_MAX
    /\ (SHOW_GROUND_AIRCRAFT \/ ~state.on_ground)
    /\ is_commercial_flight(MakePlane(state))

\* a scan that never stops at the cap
CapReachedNever(count_added) == FALSE

\* line 1122: count_added >= self.MAX_PLANES
CapReached(count_added) == count_added >= MAX_PLANES

\* the scan loop of lines 1096-1123: acc is self.planes so far
RECURSIVE ScanStates(_, _)
ScanStates(states, acc) ==
    IF states = <<>> THEN acc
    ELSE IF AcceptState(Head(states))
    THEN IF CapReached(Len(acc) + 1)
         THEN Append(acc, MakePlane(Head(states)))
         ELSE ScanStates(Tail(states), Append(acc, MakePlane(Head(states))))
    ELSE ScanStates(Tail(states), acc)

\* insert p behind every entry that is not farther (list.sort is stable)
RECURSIVE InsertByDistance(_, _)
InsertByDistance(sorted, p) ==
    IF sorted = <<>> THEN <<p>>
    ELSE IF Head(sorted).distance <= p.distance
    THEN <<Head(sorted)>> \o InsertByDistance(Tail(sorted), p)
    ELSE <<p>> \o sorted

\* self.planes.sort(key=lambda x: x['distance'])
RECURSIVE SortByDistance(_)
SortByDistance(s) ==
    IF s = <<>> THEN <<>>
    ELSE InsertByDistance(SortByDistance(SubSeq(s, 1, Len(s) - 1)), s[Len(s)])

\* the fields of the tracker that fetch_planes reads or writes
FetchState(tok, exp, err, due, queue, pl, fetching, success) ==
    [auth_token |-> tok, token_expires |-> exp, last_error_message |-> err,
     fetch_due_at |-> due, display_queue |-> queue, planes |-> pl,
     fetching_data |-> fetching, api_success |-> success]

NoMessage == "None"

UPDATE_ERROR == "UPDATE ERROR"

\* what one call of fetch_planes did: the tracker fields it leaves, how it
\* ended, whether merge_display_queue ran, how long the requests took
FetchOutcome(st, ending, merged, elapsed) ==
    [st |-> st, ending |-> ending, merged |-> merged, elapsed |-> elapsed]

\* the same with what the token step of lines 1027-1060 did
WithAuth(out, a) ==
    [st |-> out.st, ending |-> out.ending, merged |-> out.merged,
     elapsed |-> out.elapsed, auth |-> a]

\* a slip in the 401/403 branches: the rejected token stays cached
InvalidateTokenNot(s) == s

\* lines 1142-1143 and 1151-1152: "self.auth_token = None",
\* "self.token_expires = 0"
InvalidateToken(s) == [s EXCEPT !.auth_token = NoToken, !.token_expires = 0]

\* a slip in the error handlers: the display queue is emptied with the
\* flight list
HandleResponseClearing(s, http, t, delay) ==
    IF http.kind = "ok"
    THEN LET found == SortByDistance(ScanStates(http.states, <<>>))
         IN  FetchOutcome([s EXCEPT !.planes = found,
                                    !.display_queue =
                                       merge_display_queue(s.display_queue,
                                                           found),
                                    !.api_success = TRUE,
                                    !.fetching_data = FALSE],
                          "ok", TRUE, delay)
    ELSE FetchOutcome([s EXCEPT !.display_queue = <<>>,
                                !.last_error_message = UPDATE_ERROR,
                                !.fetching_data = FALSE],
                      "exception", FALSE, delay)

\* lines 1081-1183: the position request was sent at time t
\* (s: the tracker fields after lines 1016-1020 and the token step)
HandleResponse(s, http, t, delay) ==
    LET now == t + delay
    IN  CASE http.kind = "exception" ->
               FetchOutcome([s EXCEPT !.last_error_message = UPDATE_ERROR,
                                      !.fetching_data = FALSE],
                            "exception", FALSE, delay)
          [] http.kind = "memory_error" ->
               FetchOutcome([s EXCEPT !.last_error_message = UPDATE_ERROR,
                                      !.fetching_data = FALSE],
                            "memory_error", FALSE, delay)
          [] http.kind = "json_memory_error" ->
               FetchOutcome([s EXCEPT !.last_error_message = UPDATE_ERROR],
                            "json_memory_error", FALSE, delay)
          [] http.kind = "ok" /\ http.fail_at > 0 ->
               FetchOutcome([s EXCEPT !.planes =
                                         ScanStates(SubSeq(http.states, 1,
                                                           http.fail_at - 1),
                                                    <<>>),
                                      !.last_error_message = UPDATE_ERROR,
                                      !.fetching_data = FALSE],
                            "scan_memory_error", FALSE, delay)
          [] http.kind = "ok" /\ http.fail_at = 0 ->
               LET found == SortByDistance(ScanStates(http.states, <<>>))
               IN  FetchOutcome([s EXCEPT !.planes = found,
                                          !.display_queue =
                                             merge_display_queue(s.display_queue,
                                                                 found),
                                          !.api_success = TRUE,
                                          !.fetching_data = FALSE],
                                "ok", TRUE, delay)
          [] http.kind = "status" /\ http.code = 401 ->
               FetchOutcome([InvalidateToken(s) EXCEPT
                                      !.fetch_due_at = now + BACKOFF_SHORT,
                                      !.fetching_data = FALSE],
                            "401", FALSE, delay)
          [] http.kind = "status" /\ http.code = 403 ->
               FetchOutcome([InvalidateToken(s) EXCEPT
                                      !.fetch_due_at = now + BACKOFF_LONG,
                                      !.fetching_data = FALSE],
                            "403", FALSE, delay)
          [] http.kind = "status" /\ http.code = 503 ->
               FetchOutcome([s EXCEPT !.fetch_due_at = now + BACKOFF_SHORT,
                                      !.fetching_data = FALSE],
                            "503", FALSE, delay)
          [] http.kind = "status" /\ http.code = 429 ->
               FetchOutcome([s EXCEPT !.fetch_due_at = now + BACKOFF_LONG,
                                      !.fetching_data = FALSE],
                            "429", FALSE, delay)
          [] OTHER ->
               FetchOutcome([s EXCEPT !.fetching_data = FALSE],
                            "other_status", FALSE, delay)

\* fetch_planes called at time now on tracker fields s0, under credential
\* mode `mode`; aresp/adelay: behaviour of the token endpoint if asked;
\* basic_ok: whether the Basic header of lines 1053-1056 can be built;
\* http/delay: behaviour of the position API if asked
fetch_planes(s0, now, mode, aresp, adelay, basic_ok, http, delay) ==
    LET s1 == [s0 EXCEPT !.fetching_data = TRUE, !.api_success = FALSE,
                         !.planes = <<>>]
        a  == IF mode = "none"
              THEN AuthOutcome(NoToken, s0.auth_token, s0.token_expires,
                               FALSE, 0)
              ELSE get_auth_token(s0.auth_token, s0.token_expires, now, mode,
                                  aresp, adelay)
        s2 == [s1 EXCEPT !.auth_token = a.auth_token,
                         !.token_expires = a.token_expires]
        auth_failed == \/ mode = "client" /\ a.result = NoToken
                       \/ mode = "user" /\ a.result = NoToken /\ ~basic_ok
    IN  IF auth_failed
        THEN WithAuth(FetchOutcome(s2, "auth_failed", FALSE, a.elapsed), a)
        ELSE LET r == HandleResponse(s2, http, now + a.elapsed, delay)
             IN  WithAuth(FetchOutcome(r.st, r.ending, r.merged,
                                       a.elapsed + r.elapsed), a)

\* ------------------------------------------------------------------------
\* Frame scheduler and render decision
\* ------------------------------------------------------------------------
\* what one display update hands to the render layer
Decision(kind, index, display_cs, route, msg, count) ==
    [kind |-> kind, index |-> index, display_cs |-> display_cs,
     route |-> route, msg |-> msg, count |-> count]

\* draw_plane_icon_with_time
ClockFrame == Decision("clock", 0, <<>>, None, NoMessage, 0)

\* draw_corner_indicators(YELLOW) without text
LoadingFrame == Decision("loading", 0, <<>>, None, NoMessage, 0)

\* yellow corners with self.last_error_message
ErrorFrame(msg) == Decision("error", 0, <<>>, None, msg, 0)

\* "N Flights" overlay
CountFrame(n) == Decision("count", 0, <<>>, None, NoMessage, n)

\* logo, display callsign and route of display_queue[index] (0-based)
FlightFrame(index, display_cs, route) ==
    Decision("flight", index, display_cs, route, NoMessage, 0)

\* red corners and "WIFI ERROR"
WifiErrorFrame == Decision("wifi_error", 0, <<>>, None, "WIFI ERROR", 0)

\* _frame_cycle_index
frame_cycle_index(frame_index) == frame_index % FRAME_CYCLE

\* a slip in the rotation: the clock position is counted as a flight
plane_idx_counting_clock(frame_index, num_planes) ==
    ((frame_index \div FRAME_CYCLE) * FRAME_CYCLE
        + frame_cycle_index(frame_index)) % num_planes

\* lines 1299-1300: 0-based position in display_queue of the flight shown
plane_idx(frame_index, num_planes) ==
    ((frame_index \div FRAME_CYCLE) * FLIGHTS_PER_CYCLE
        + frame_cycle_index(frame_index)) % num_planes

\* a slip in the cycle test: the clock frame is never selected
IsClockPositionNever(cycle) == FALSE

\* line 1290: "if cycle == 4"
IsClockPosition(cycle) == cycle = FRAME_CYCLE - 1

\* a slip in the overlay test: the overlay is never shown
OverlayActiveNever(until, now) == FALSE

\* line 1268: "if self.count_overlay_until and now < self.count_overlay_until"
OverlayActive(until, now) == until # 0 /\ now < until

\* the fields of the tracker that draw_info_display reads or writes
DrawState(c_only, fetching, success, pl, err, fidx, lft, overlay, queue, rs) ==
    [clock_only |-> c_only, fetching_data |-> fetching,
     api_success |-> success, planes |-> pl, last_error_message |-> err,
     frame_index |-> fidx, last_frame_time |-> lft,
     count_overlay_until |-> overlay, display_queue |-> queue, rs |-> rs]

\* what draw_info_display did: the decision, the fields it leaves, whether
\* the normal-frame code (line 1285 on) was reached, the requests it sent to
\* the route API for `callsign` and how long they took
DrawOutcome(decision, st, normal, callsign, attempts, elapsed) ==
    [decision |-> decision, st |-> st, normal |-> normal,
     callsign |-> callsign, attempts |-> attempts, elapsed |-> elapsed]

\* lines 1285-1332 for frame counter value st.frame_index
DrawNormalFrame(st, now, resp1, delay1, resp2, delay2) ==
    LET queue == st.display_queue
        cycle == frame_cycle_index(st.frame_index)
    IN  IF queue = <<>> THEN DrawOutcome(ClockFrame, st, TRUE, <<>>, <<>>, 0)
        ELSE IF IsClockPosition(cycle)
        THEN DrawOutcome(ClockFrame, st, TRUE, <<>>, <<>>, 0)
        ELSE LET idx      == plane_idx(st.frame_index, Len(queue))
                 callsign == Strip(queue[idx + 1].callsign)
                 dc == get_display_callsign(st.rs, callsign, now, resp1, delay1)
                 now2 == now + dc.elapsed
                 rt == get_route(dc.rs, callsign, now2, resp2, delay2)
                 attempts == (IF dc.attempted THEN <<now>> ELSE <<>>)
                             \o (IF rt.attempted THEN <<now2>> ELSE <<>>)
             IN  DrawOutcome(FlightFrame(idx, dc.result, rt.result),
                             [st EXCEPT !.rs = rt.rs], TRUE,
                             norm_callsign(callsign), attempts,
                             dc.elapsed + rt.elapsed)

\* a slip in the frame test: the counter advances at every call
FrameDueAlways(now, last_frame) == TRUE

\* line 1262: current_time - self.last_frame_time >= 4
FrameDue(now, last_frame) == now - last_frame >= FRAME_INTERVAL

\* draw_info_display at time now
draw_info_display(st, now, resp1, delay1, resp2, delay2) ==
    IF st.clock_only
    THEN DrawOutcome(ClockFrame, st, FALSE, <<>>, <<>>, 0)
    ELSE IF st.fetching_data
    THEN DrawOutcome(LoadingFrame, st, FALSE, <<>>, <<>>, 0)
    ELSE IF st.api_success /\ st.planes = <<>>
    THEN DrawOutcome(ClockFrame, st, FALSE, <<>>, <<>>, 0)
    ELSE IF ~st.api_success
    THEN DrawOutcome(IF st.last_error_message # NoMessage
                     THEN ErrorFrame(st.last_error_message)
                     ELSE LoadingFrame,
                     st, FALSE, <<>>, <<>>, 0)
    ELSE LET advance == FrameDue(now, st.last_frame_time)
             st2 == IF advance
                    THEN [st EXCEPT !.frame_index = st.frame_index + 1,
                                    !.last_frame_time = now]
                    ELSE st
         IN  IF OverlayActive(st2.count_overlay_until, now)
             THEN DrawOutcome(CountFrame(Len(st2.display_queue)), st2, FALSE,
                              <<>>, <<>>, 0)
             ELSE DrawNormalFrame(st2, now, resp1, delay1, resp2, delay2)

\* ------------------------------------------------------------------------
\* State
\* ------------------------------------------------------------------------
VARIABLES
    clock,                  \* value time.time() returns now
    pc,                     \* position of run() in its code
    current_time,           \* run: current_time of the loop iteration
    wifi_connected,         \* self.wifi_connected
    ntp_ok,                 \* self.ntp_ok
    ntp_last_sync,          \* self.ntp_last_sync
    last_logos_sync,        \* self.last_logos_sync
    fetch_due_at,           \* self.fetch_due_at
    last_api_update,        \* self.last_api_update
    night_mode,             \* self.night_mode
    clock_only,             \* self.clock_only
    count_overlay_until,    \* self.count_overlay_until
    frame_index,            \* self.frame_index
    last_frame_time,        \* self.last_frame_time
    fetching_data,          \* self.fetching_data
    api_success,            \* self.api_success
    last_error_message,     \* self.last_error_message
    auth_token,             \* self.auth_token
    token_expires,          \* self.token_expires
    cred_mode,              \* which OPENSKY_* credentials SECRETS.py sets
    planes,                 \* self.planes
    display_queue,          \* self.display_queue
    route_cache,            \* self.route_cache: callsign -> <<route, ts>>
    callsign_iata_cache,    \* self.callsign_iata_cache: callsign -> <<cs, ts>>
    route_last_fetch_times, \* self.route_last_fetch_times: callsign -> ts
    h_auth,       \* observation: the last call of get_auth_token
    h_op,         \* observation: the operation performed last
    h_merge_prev, \* observation: display_queue before the last merge
    h_merge_arg,  \* observation: new_list of the last merge
    h_arg,        \* observation: callsign passed to the last resolver call
    h_result,     \* observation: what that call returned
    h_attempted,  \* observation: whether that call asked the route API
    h_net,        \* observation: per callsign, the time of the last
                  \* request sent to the route API
    h_render,     \* observation: the last render decision
    h_fetch,      \* observation: the last call of fetch_planes
    h_tick,       \* observation: the fetches of the current loop iteration
    h_frames      \* observation: whether the last draw_info_display got to
                  \* its normal-frame code, and what was drawn at each of
                  \* the last frame counter values (kept by the frame
                  \* specification)

loopVars == <<pc, current_time, wifi_connected, ntp_ok, ntp_last_sync,
              last_logos_sync>>

schedVars == <<fetch_due_at, last_api_update, night_mode>>

uiVars == <<clock_only, count_overlay_until>>

frameVars == <<frame_index, last_frame_time>>

fetchVars == <<fetching_data, api_success, last_error_message, auth_token,
               token_expires, cred_mode, h_auth>>

trackerVars == <<planes, display_queue>>

routeVars == <<route_cache, callsign_iata_cache, route_last_fetch_times>>

mergeObs == <<h_merge_prev, h_merge_arg>>

routeObs == <<h_arg, h_result, h_attempted, h_net>>

loopObs == <<h_render, h_fetch, h_tick, h_frames>>

vars == <<clock, loopVars, schedVars, uiVars, frameVars, fetchVars,
          trackerVars, routeVars, h_op, mergeObs, routeObs, loopObs>>

\* PlaneTracker.__init__
InitTracker ==
    /\ planes = <<>>
    /\ last_api_update = 0
    /\ wifi_connected = FALSE
    /\ auth_token = NoToken
    /\ token_expires = 0
    /\ fetching_data = FALSE
    /\ api_success = FALSE
    /\ last_logos_sync = 0
    /\ last_error_message = NoMessage
    /\ display_queue = <<>>
    /\ frame_index = 0
    /\ last_frame_time = 0
    /\ clock_only = FALSE
    /\ count_overlay_until = 0
    /\ fetch_due_at = 0
    /\ night_mode = FALSE
    /\ ntp_last_sync = 0
    /\ ntp_ok = FALSE
    /\ route_cache = EmptyDict
    /\ callsign_iata_cache = EmptyDict
    /\ route_last_fetch_times = EmptyDict

\* trigger: what called fetch_planes last; ending: how that call ended;
\* early: whether it was made before fetch_due_at; periodic_at: the loop
\* time of the last periodic fetch; prev_periodic_at: the loop time of the
\* periodic fetch before that one (0: none); after_manual: whether the
\* last periodic fetch was the first fetch after an early manual one
NoFetch ==
    [trigger |-> "none", ending |-> "none", early |-> FALSE,
     periodic_at |-> 0, prev_periodic_at |-> 0, after_manual |-> FALSE]

NoTickFetch == [periodic |-> FALSE, manual |-> FALSE]

\* result, requested: what the call returned and whether it asked the
\* token endpoint; at: when it was made; tok, exp: the cached token and
\* expiry it found; granted_at, lifetime: when the cached token was
\* acquired and the lifetime the server declared for it (kept by the
\* token specification)
NoAuth ==
    [result |-> NoToken, requested |-> FALSE, at |-> 0, tok |-> NoToken,
     exp |-> 0, granted_at |-> 0, lifetime |-> 0]

NoFrames == [normal |-> FALSE, log |-> <<>>]

InitObserved ==
    /\ h_op = "init"
    /\ h_auth = NoAuth
    /\ h_merge_prev = <<>>
    /\ h_merge_arg = <<>>
    /\ h_arg = <<>>
    /\ h_result = None
    /\ h_attempted = FALSE
    /\ h_net = EmptyDict
    /\ h_render = LoadingFrame
    /\ h_fetch = NoFetch
    /\ h_tick = NoTickFetch
    /\ h_frames = NoFrames

CurrentRouteState ==
    RouteState(route_cache, callsign_iata_cache, route_last_fetch_times)

\* the component specifications call one operation of a constructed tracker
\* directly; run() has not started
InitIdle ==
    /\ InitTracker
    /\ InitObserved
    /\ pc = "idle"
    /\ current_time = 0
    /\ cred_mode = "none"

idleVars == <<loopVars, schedVars, uiVars, frameVars, fetchVars, loopObs>>

\* ------------------------------------------------------------------------
\* Specification of merge_display_queue on arbitrary lists
\* ------------------------------------------------------------------------
\* records a caller may pass: two versions of one flight, a flight keyed by
\* its callsign, a flight whose ICAO id equals nothing else, an empty key
MergePlanes ==
    { Plane(id_a1, cs_BAW1, 9000, 3, FALSE),
      Plane(id_a1, cs_BAW1, 9500, 5, FALSE),
      Plane(id_b2, cs_KLM2, 8000, 4, FALSE),
      Plane(<<>>, cs_KLM2, 7000, 6, FALSE),
      Plane(<<>>, <<>>, 6000, 7, FALSE) }

MergeCall(new_list) ==
    /\ h_op' = "merge_display_queue"
    /\ h_merge_prev' = display_queue
    /\ h_merge_arg' = new_list
    /\ display_queue' = merge_display_queue(display_queue, new_list)
    /\ UNCHANGED <<clock, planes, routeVars, routeObs, idleVars>>

InitMerge ==
    /\ InitIdle
    /\ clock = BootTime

\* the lists a caller may pass: up to MaxFresh of these records, none of
\* them twice
FreshLists ==
    { l \in SeqsUpTo(MergePlanes, MaxFresh) :
        \A i, j \in 1..Len(l) : i # j => l[i] # l[j] }

NextMerge == \E new_list \in FreshLists : MergeCall(new_list)

SpecMerge == InitMerge /\ [][NextMerge]_vars

\* ------------------------------------------------------------------------
\* Claims about merge_display_queue
\* ------------------------------------------------------------------------
DistinctKeys(q) ==
    \A i, j \in 1..Len(q) : i # j => key_of(q[i]) # key_of(q[j])

\* the entries of q whose key is in K, in q's order
Survivors(q, K) == SelectSeq(q, LAMBDA p : key_of(p) \in K)

\* positions of new_list holding the first record of a non-empty key that
\* the previous queue does not have
FirstNewPositions(q, new_list) ==
    {i \in 1..Len(new_list) :
        /\ Truthy(key_of(new_list[i]))
        /\ key_of(new_list[i]) \notin KeysOf(q)
        /\ \A j \in 1..(i - 1) : key_of(new_list[j]) # key_of(new_list[i])}

\* C1 as stated: after a merge the queue is the entries of the previous
\* queue whose key occurs in the fresh list, in their order, followed by
\* every entry of the fresh list whose key the previous queue lacks.
C1_AsStated ==
    h_op = "merge_display_queue" =>
        display_queue =
            Survivors(h_merge_prev, KeysOf(h_merge_arg))
            \o SelectSeq(h_merge_arg,
                         LAMBDA p : key_of(p) \notin KeysOf(h_merge_prev))

\* C1 amended: after a merge the queue is the entries of the previous queue
\* whose key occurs in the fresh list, in their order, followed by the first
\* fresh entry of each non-empty key the previous queue lacks, in fresh
\* order; no key absent from the fresh list remains.
C1_MergeStability ==
    h_op = "merge_display_queue" =>
        /\ display_queue =
               Survivors(h_merge_prev, KeysOf(h_merge_arg))
               \o Pick(h_merge_arg,
                       FirstNewPositions(h_merge_prev, h_merge_arg), 1)
        /\ KeysOf(display_queue) \subseteq KeysOf(h_merge_arg)

\* a merge that kept two survivors, dropped a flight and appended a new one
\* from a fresh list that repeats a key
C1_Witness ==
    /\ h_op = "merge_display_queue"
    /\ Len(Survivors(h_merge_prev, KeysOf(h_merge_arg))) >= 1
    /\ KeysOf(h_merge_prev) \ KeysOf(h_merge_arg) # {}
    /\ FirstNewPositions(h_merge_prev, h_merge_arg) # {}
    /\ ~DistinctKeys(h_merge_arg)

\* C2: the display queue never holds two entries with the same identity
\* key.
C2_OneEntryPerKey == DistinctKeys(display_queue)

\* a merge whose fresh list holds an empty-key record and twice a key the
\* previous queue lacked has put that key into the queue
C2_Witness ==
    /\ h_op = "merge_display_queue"
    /\ \E i \in 1..Len(h_merge_arg) : ~Truthy(key_of(h_merge_arg[i]))
    /\ \E i, j \in 1..Len(h_merge_arg) :
          /\ i < j
          /\ key_of(h_merge_arg[i]) = key_of(h_merge_arg[j])
          /\ key_of(h_merge_arg[i]) \notin KeysOf(h_merge_prev)
          /\ key_of(h_merge_arg[i]) \in KeysOf(display_queue)

\* ------------------------------------------------------------------------
\* Specification of the route resolver: calls in any order as time passes
\* ------------------------------------------------------------------------
\* longest time a route request takes (seconds)
MaxNetDelay == 1

ap_LHR == <<"L","H","R">>
ap_JFK == <<"J","F","K">>
iata_ba1 == <<"b","a","1">>

RouteBody(o, d, cs) ==
    [kind |-> "ok", origin |-> o, destination |-> d, callsign_iata |-> cs]

\* behaviours of the route API: the request raises, answers non-200, or
\* answers 200 with or without an airport pair and a preferred callsign
RouteResponses ==
    { [kind |-> "exception"], [kind |-> "status"],
      RouteBody(ap_LHR, ap_JFK, iata_ba1), RouteBody(ap_LHR, ap_JFK, <<>>),
      RouteBody(ap_LHR, <<>>, <<>>) }

\* spellings passed by callers
RouteCallsigns == { cs_BAW1, <<" ","b","a","w","1">> }

RouteHorizon == BootTime + RouteMaxElapsed

\* durations that keep the clock within the horizon
Delays(max, horizon) == 0..Min(max, horizon - clock)

\* a resolver call returned out: install its dictionaries, let its network
\* time pass, note what was observed
RouteReturn(op, callsign, out) ==
    LET c == norm_callsign(callsign)
    IN  /\ h_op' = op
        /\ h_arg' = callsign
        /\ h_result' = out.result
        /\ h_attempted' = out.attempted
        /\ h_net' = IF out.attempted
                    THEN DictPut(h_net, c, clock)
                    ELSE h_net
        /\ route_cache' = out.rs.route_cache
        /\ callsign_iata_cache' = out.rs.callsign_iata_cache
        /\ route_last_fetch_times' = out.rs.route_last_fetch_times
        /\ clock' = clock + out.elapsed

GetCachedRouteCall(callsign) ==
    /\ RouteReturn("get_cached_route", callsign,
                   RouteOutcome(get_cached_route(route_cache, callsign, clock),
                                CurrentRouteState, FALSE, 0))
    /\ UNCHANGED <<trackerVars, mergeObs, idleVars>>

FetchRouteCall(callsign, resp, delay) ==
    /\ RouteReturn("fetch_route", callsign,
                   fetch_route(CurrentRouteState, callsign, clock, resp, delay))
    /\ UNCHANGED <<trackerVars, mergeObs, idleVars>>

GetRouteCall(callsign, resp, delay) ==
    /\ RouteReturn("get_route", callsign,
                   get_route(CurrentRouteState, callsign, clock, resp, delay))
    /\ UNCHANGED <<trackerVars, mergeObs, idleVars>>

GetDisplayCallsignCall(callsign, resp, delay) ==
    /\ RouteReturn("get_display_callsign", callsign,
                   get_display_callsign(CurrentRouteState, callsign, clock,
                                        resp, delay))
    /\ UNCHANGED <<trackerVars, mergeObs, idleVars>>

\* a second passes between calls
TimePasses ==
    /\ clock < RouteHorizon
    /\ clock' = clock + 1
    /\ h_op' = "time_passes"
    /\ UNCHANGED <<trackerVars, routeVars, mergeObs, routeObs, idleVars>>

InitRoute ==
    /\ InitIdle
    /\ clock = BootTime

NextRoute ==
    \/ \E c \in RouteCallsigns : GetCachedRouteCall(c)
    \/ \E c \in RouteCallsigns, resp \in RouteResponses, d \in Delays(MaxNetDelay, RouteHorizon) :
          FetchRouteCall(c, resp, d)
    \/ \E c \in RouteCallsigns, resp \in RouteResponses, d \in Delays(MaxNetDelay, RouteHorizon) :
          GetRouteCall(c, resp, d)
    \/ \E c \in RouteCallsigns, resp \in RouteResponses, d \in Delays(MaxNetDelay, RouteHorizon) :
          GetDisplayCallsignCall(c, resp, d)
    \/ TimePasses

SpecRoute == InitRoute /\ [][NextRoute]_vars

\* ------------------------------------------------------------------------
\* Claims about the route resolver
\* ------------------------------------------------------------------------
ResolveOps == {"fetch_route", "get_route", "get_display_callsign"}

\* the last operation was get_cached_route on a callsign that has a cache
\* entry (the read leaves the cache and the clock as they were)
CachedRead ==
    /\ h_op = "get_cached_route"
    /\ norm_callsign(h_arg) \in DOMAIN route_cache

\* C3 as stated: an entry written at t is returned by reads up to
\* t+ROUTE_TTL-1 and absent for reads from t+ROUTE_TTL on.
C3_AsStated ==
    CachedRead =>
        LET e == route_cache[norm_callsign(h_arg)]
        IN  /\ clock <= e[2] + ROUTE_TTL - 1 => h_result = e[1]
            /\ clock >= e[2] + ROUTE_TTL => h_result = None

\* C3 amended: an entry written at t is returned unchanged by reads up to
\* and including t+ROUTE_TTL and absent for reads after t+ROUTE_TTL.
C3_TTLExpiry ==
    CachedRead =>
        LET e == route_cache[norm_callsign(h_arg)]
        IN  /\ clock <= e[2] + ROUTE_TTL => h_result = e[1]
            /\ clock > e[2] + ROUTE_TTL => h_result = None

\* a read made exactly ROUTE_TTL after the entry was written returned it
C3_Witness ==
    /\ CachedRead
    /\ clock = route_cache[norm_callsign(h_arg)][2] + ROUTE_TTL
    /\ h_result = route_cache[norm_callsign(h_arg)][1]

\* C4: a resolver call sends a request to the route API only if the last
\* request for the same normalized callsign, whatever its outcome, was made
\* at least 5 seconds earlier; so two calls less than 5 apart send at most
\* one.
C4_Throttle ==
    [][ (h_op' \in ResolveOps /\ h_attempted') =>
            clock - DictGet(h_net, norm_callsign(h_arg'), 0) >= ROUTE_COOLDOWN
      ]_vars

\* a call inside the cooldown window of a request that cached no route was
\* answered without a request
C4_Witness ==
    /\ h_op \in ResolveOps
    /\ ~h_attempted
    /\ norm_callsign(h_arg) \in DOMAIN h_net
    /\ clock - h_net[norm_callsign(h_arg)] < ROUTE_COOLDOWN
    /\ norm_callsign(h_arg) \notin DOMAIN route_cache
    /\ norm_callsign(h_arg) \notin DOMAIN callsign_iata_cache

\* C12 as stated: get_route, called at some time, never returns a route
\* whose cache entry was written more than ROUTE_TTL before the call.
C12_AsStated ==
    [][ (h_op' = "get_route" /\ h_result' # None) =>
            LET c == norm_callsign(h_arg')
            IN  /\ c \in DOMAIN route_cache'
                /\ route_cache'[c][1] = h_result'
                /\ clock - route_cache'[c][2] <= ROUTE_TTL
      ]_vars

\* C13 as stated: get_route and get_display_callsign are idempotent: a
\* second call of the same operation with the same callsign, made right
\* after the first returned (so well within ROUTE_TTL of it), returns what
\* the first call returned and leaves the route cache, the preferred
\* callsign cache and the throttle map as the first call left them.
C13_AsStated ==
    [][ ( /\ h_op \in {"get_route", "get_display_callsign"}
          /\ h_op' = h_op
          /\ h_arg' = h_arg )
        => ( /\ h_result' = h_result
             /\ route_cache' = route_cache
             /\ callsign_iata_cache' = callsign_iata_cache
             /\ route_last_fetch_times' = route_last_fetch_times )
      ]_vars

\* ------------------------------------------------------------------------
\* The main loop run(): one action per block of its code
\* ------------------------------------------------------------------------
\* seconds of behaviour explored after boot by the loop specification
MainMaxElapsed == 3
\* seconds between boot and the next full hour
BootLead == 2
\* longest time a sleep of run() adds to the whole-second clock
MaxSleep == 1

\* boot shortly before the night window ends and shortly before it begins
BootTimes ==
    { NIGHT_END_HOUR * 3600 - BootLead,
      (NIGHT_START_HOUR + 24) * 3600 - BootLead }

MainHorizon(boot) == boot + MainMaxElapsed

\* the boot time of the behaviour a state belongs to
BootOf(t) == CHOOSE b \in BootTimes : b <= t /\ t <= MainHorizon(b)

Horizon == MainHorizon(BootOf(clock))

sv_BAW1 ==
    StateVector(id_a1, <<"B","A","W","1"," "," ">>, TRUE, 3, 9000, FALSE)

sv_KLM2 == StateVector(id_b2, cs_KLM2, TRUE, 2, 8000, FALSE)

\* a position API answer of status 200 whose `states` array is ss
HttpOk(ss) == [kind |-> "ok", states |-> ss, fail_at |-> 0]

\* a position API answer of another status
HttpStatus(c) == [kind |-> "status", code |-> c]

\* behaviours of the position API seen by the loop
MainHttpResponses ==
    { [kind |-> "exception"], HttpStatus(429), HttpStatus(503),
      HttpOk(<<>>), HttpOk(<<sv_BAW1>>) }

\* a token endpoint answer carrying access_token tok
AuthOk(tok) ==
    [kind |-> "ok", token |-> tok, has_expires_in |-> FALSE, expires_in |-> 0]

\* behaviours of the token endpoint seen by the loop
MainAuthResponses == { [kind |-> "status"], AuthOk("tok1") }

\* behaviours of the route API seen by the loop
MainRouteResponses == { [kind |-> "exception"] }

CredModes == {"client", "user", "none"}

\* credential configurations run by the loop specification
MainCredModes == {"none"}

CurrentFetchState ==
    FetchState(auth_token, token_expires, last_error_message, fetch_due_at,
               display_queue, planes, fetching_data, api_success)

\* whether fetch_planes at time now would ask the token endpoint
NeedsToken(now) ==
    /\ cred_mode # "none"
    /\ ~TokenFresh(auth_token, token_expires, now)

\* every way a call of fetch_planes at time now can go within the horizon
\* (the token endpoint answers at once; the position API takes up to
\* MaxNetDelay)
FetchOutcomes(now) ==
    { out \in { fetch_planes(CurrentFetchState, now, cred_mode, aresp, 0,
                             basic_ok, http, d) :
                  aresp \in (IF NeedsToken(now) THEN MainAuthResponses
                             ELSE {[kind |-> "exception"]}),
                  basic_ok \in (IF NeedsToken(now) /\ cred_mode = "user"
                                THEN BOOLEAN ELSE {TRUE}),
                  http \in MainHttpResponses,
                  d \in 0..MaxNetDelay } :
        now + out.elapsed <= Horizon }

\* fetch_planes returned out: install the fields it leaves (the caller
\* assigns fetch_due_at after it)
FetchReturn(out) ==
    /\ auth_token' = out.st.auth_token
    /\ token_expires' = out.st.token_expires
    /\ last_error_message' = out.st.last_error_message
    /\ display_queue' = out.st.display_queue
    /\ planes' = out.st.planes
    /\ fetching_data' = out.st.fetching_data
    /\ api_success' = out.st.api_success
    /\ h_auth' = IF cred_mode = "none" THEN h_auth
                 ELSE [h_auth EXCEPT !.result = out.auth.result,
                                     !.requested = out.auth.requested,
                                     !.at = clock,
                                     !.tok = auth_token,
                                     !.exp = token_expires]
    /\ UNCHANGED <<cred_mode, mergeObs>>

\* lines 1363-1364: connect_wifi
ConnectWifi ==
    /\ pc = "connect"
    /\ \E ok \in BOOLEAN :
          /\ wifi_connected' = ok
          /\ pc' = IF ok THEN "startup_sync" ELSE "wifi_error"
    /\ h_op' = "connect_wifi"
    /\ UNCHANGED <<clock, current_time, ntp_ok, ntp_last_sync, last_logos_sync,
                   schedVars, uiVars, frameVars, fetchVars, trackerVars,
                   routeVars, mergeObs, routeObs, loopObs>>

\* an error loop that gives up after one pass and connects again
WifiErrorRetry == "connect"

\* line 1364: while True, the loop has no exit
WifiErrorNext == "wifi_error"

\* lines 1364-1383: the WIFI ERROR loop
WifiErrorLoop ==
    /\ pc = "wifi_error"
    /\ clock < Horizon
    /\ clock' = clock + 1
    /\ pc' = WifiErrorNext
    /\ h_render' = WifiErrorFrame
    /\ h_op' = "wifi_error"
    /\ UNCHANGED <<current_time, wifi_connected, ntp_ok, ntp_last_sync,
                   last_logos_sync, schedVars, uiVars, frameVars, fetchVars,
                   trackerVars, routeVars, mergeObs, routeObs, h_fetch,
                   h_tick, h_frames>>

\* lines 1385-1390: logo sync at startup (it may raise)
StartupSync ==
    /\ pc = "startup_sync"
    /\ \E ok \in BOOLEAN :
          last_logos_sync' = IF ok THEN clock ELSE last_logos_sync
    /\ pc' = "top"
    /\ h_op' = "startup_sync"
    /\ UNCHANGED <<clock, current_time, wifi_connected, ntp_ok, ntp_last_sync,
                   schedVars, uiVars, frameVars, fetchVars, trackerVars,
                   routeVars, mergeObs, routeObs, loopObs>>

\* a slip in the resync test: ">=" for ">"
LogosDueEarly(now, last_sync) == now - last_sync >= LOGOS_SYNC_INTERVAL

\* line 1405: current_time - self.last_logos_sync > self.LOGOS_SYNC_INTERVAL
LogosDue(now, last_sync) == now - last_sync > LOGOS_SYNC_INTERVAL

\* lines 1394-1411: read the time, NTP sync, first fetch_due_at, logo resync
\* (sync_github_logos returns or raises: logos_ok)
LoopTop ==
    /\ pc = "top"
    /\ current_time' = clock
    /\ LET need_ntp == wifi_connected /\
                       (~ntp_ok \/ clock - ntp_last_sync > NTP_SYNC_INTERVAL)
           need_logos == LogosDue(clock, last_logos_sync)
       IN  /\ \E ok \in (IF need_ntp THEN BOOLEAN ELSE {ntp_ok}) :
                 /\ ntp_ok' = ok
                 /\ ntp_last_sync' = IF need_ntp /\ ok THEN clock
                                     ELSE ntp_last_sync
           /\ last_logos_sync' = IF need_logos THEN clock ELSE last_logos_sync
           /\ \E logos_ok \in (IF need_logos THEN BOOLEAN ELSE {TRUE}) :
                 h_op' = IF ~need_logos THEN "loop_top"
                         ELSE IF logos_ok THEN "loop_top_resync"
                         ELSE "loop_top_resync_failed"
    /\ fetch_due_at' = IF fetch_due_at = 0 THEN clock ELSE fetch_due_at
    /\ pc' = "poll"
    /\ h_tick' = NoTickFetch
    /\ UNCHANGED <<clock, wifi_connected, last_api_update, night_mode, uiVars,
                   frameVars, fetchVars, trackerVars, routeVars, mergeObs,
                   routeObs, h_render, h_fetch, h_frames>>

\* line 1417: self.fetch_due_at = current_time + self.API_INTERVAL
PeriodicDueAt(now, due_before, due_after_fetch) == now + API_INTERVAL

\* a slip in the poll test: the periodic fetch is never made
PollDueNever(night, now, due) == FALSE

\* a slip in the poll test: a fetch one second early
PollDueEarly(night, now, due) == ~night /\ now >= due - 1

\* line 1414: "if not self.night_mode and current_time >= self.fetch_due_at"
PollDue(night, now, due) == ~night /\ now >= due

\* lines 1413-1417: the periodic fetch
Poll ==
    /\ pc = "poll"
    /\ IF PollDue(night_mode, current_time, fetch_due_at)
       THEN \E out \in FetchOutcomes(clock) :
               /\ FetchReturn(out)
               /\ clock' = clock + out.elapsed
               /\ last_api_update' = current_time
               /\ fetch_due_at' = PeriodicDueAt(current_time, fetch_due_at,
                                                out.st.fetch_due_at)
               /\ h_fetch' = [trigger |-> "periodic", ending |-> out.ending,
                              early |-> FALSE, periodic_at |-> current_time,
                              prev_periodic_at |-> h_fetch.periodic_at,
                              after_manual |-> h_fetch.trigger = "manual"
                                               /\ h_fetch.early]
               /\ h_tick' = [h_tick EXCEPT !.periodic = TRUE]
               /\ h_op' = "poll_fetch"
       ELSE /\ h_op' = "poll_skip"
            /\ UNCHANGED <<clock, fetchVars, trackerVars, mergeObs,
                           last_api_update, fetch_due_at, h_fetch, h_tick>>
    /\ pc' = "display"
    /\ UNCHANGED <<current_time, wifi_connected, ntp_ok, ntp_last_sync,
                   last_logos_sync, night_mode, uiVars, frameVars, routeVars,
                   routeObs, h_render, h_frames>>

CurrentDrawState ==
    DrawState(clock_only, fetching_data, api_success, planes,
              last_error_message, frame_index, last_frame_time,
              count_overlay_until, display_queue, CurrentRouteState)

\* every way draw_info_display at time now can go (route requests taking
\* up to max_delay) within the horizon
DrawOutcomes(now, responses, max_delay, horizon) ==
    { out \in { draw_info_display(CurrentDrawState, now, r1, d1, r2, d2) :
                  r1 \in responses, d1 \in 0..max_delay,
                  r2 \in responses, d2 \in 0..max_delay } :
        now + out.elapsed <= horizon }

\* draw_info_display returned out: install the fields it leaves
DrawReturn(out) ==
    /\ frame_index' = out.st.frame_index
    /\ last_frame_time' = out.st.last_frame_time
    /\ route_cache' = out.st.rs.route_cache
    /\ callsign_iata_cache' = out.st.rs.callsign_iata_cache
    /\ route_last_fetch_times' = out.st.rs.route_last_fetch_times
    /\ clock' = clock + out.elapsed

\* update_display (line 1420), at the current time
UpdateDisplay ==
    /\ pc = "display"
    /\ night_mode' = NightHour(uk_localtime_hour(clock))
    /\ IF night_mode'
       THEN /\ h_render' = ClockFrame
            /\ UNCHANGED <<clock, frameVars, routeVars, routeObs>>
       ELSE \E out \in DrawOutcomes(clock, MainRouteResponses, 0, Horizon) :
               /\ DrawReturn(out)
               /\ h_render' = out.decision
               /\ UNCHANGED routeObs
    /\ pc' = "button_a"
    /\ h_op' = "update_display"
    /\ UNCHANGED <<current_time, wifi_connected, ntp_ok, ntp_last_sync,
                   last_logos_sync, fetch_due_at, last_api_update, uiVars,
                   fetchVars, trackerVars, mergeObs, h_fetch, h_tick,
                   h_frames>>

\* lines 1423-1426: SWITCH_A toggles clock-only mode
ButtonA ==
    /\ pc = "button_a"
    /\ \E pressed \in BOOLEAN :
          IF pressed
          THEN clock_only' = ~clock_only
          ELSE UNCHANGED clock_only
    /\ pc' = "button_b"
    /\ h_op' = "button_a"
    /\ UNCHANGED <<clock, current_time, wifi_connected, ntp_ok, ntp_last_sync,
                   last_logos_sync, schedVars, count_overlay_until, frameVars,
                   fetchVars, trackerVars, routeVars, mergeObs, routeObs,
                   loopObs>>

\* lines 1427-1430: SWITCH_B shows the plane count for 5 seconds
ButtonB ==
    /\ pc = "button_b"
    /\ \E pressed \in BOOLEAN :
          IF pressed
          THEN count_overlay_until' = clock + COUNT_OVERLAY_SECONDS
          ELSE UNCHANGED count_overlay_until
    /\ pc' = "button_d"
    /\ h_op' = "button_b"
    /\ UNCHANGED <<clock, current_time, wifi_connected, ntp_ok, ntp_last_sync,
                   last_logos_sync, schedVars, clock_only, frameVars,
                   fetchVars, trackerVars, routeVars, mergeObs, routeObs,
                   loopObs>>

\* a slip in the manual trigger: the deadline is counted from the start of
\* the loop iteration
ManualDueAtStale(tick_start, now) == tick_start + API_INTERVAL

\* line 1437: self.fetch_due_at = now + self.API_INTERVAL
ManualDueAt(tick_start, now) == now + API_INTERVAL

\* lines 1431-1438: SWITCH_D forces an immediate fetch
ButtonD ==
    /\ pc = "button_d"
    /\ \E pressed \in BOOLEAN :
          IF pressed
          THEN \E out \in FetchOutcomes(clock) :
                  LET now == clock + out.elapsed
                  IN  /\ FetchReturn(out)
                      /\ last_api_update' = now
                      /\ fetch_due_at' = ManualDueAt(current_time, now)
                      /\ clock' = now
                      /\ h_fetch' = [h_fetch EXCEPT
                                        !.trigger = "manual",
                                        !.ending = out.ending,
                                        !.early = clock < fetch_due_at]
                      /\ h_tick' = [h_tick EXCEPT !.manual = TRUE]
                      /\ h_op' = "manual_fetch"
          ELSE /\ h_op' = "button_d"
               /\ UNCHANGED <<clock, fetchVars, trackerVars, mergeObs,
                              last_api_update, fetch_due_at, h_fetch, h_tick>>
    /\ pc' = "sleep"
    /\ UNCHANGED <<current_time, wifi_connected, ntp_ok, ntp_last_sync,
                   last_logos_sync, night_mode, uiVars, frameVars, routeVars,
                   routeObs, h_render, h_frames>>

\* line 1440: time.sleep(DISPLAY_UPDATE_INTERVAL); the loop iteration ends
Sleep ==
    /\ pc = "sleep"
    /\ \E d \in Delays(MaxSleep, Horizon) : clock' = clock + d
    /\ pc' = "top"
    /\ h_op' = "sleep"
    /\ UNCHANGED <<current_time, wifi_connected, ntp_ok, ntp_last_sync,
                   last_logos_sync, schedVars, uiVars, frameVars, fetchVars,
                   trackerVars, routeVars, mergeObs, routeObs, loopObs>>

Init ==
    /\ InitTracker
    /\ InitObserved
    /\ pc = "connect"
    /\ current_time = 0
    /\ cred_mode \in MainCredModes
    /\ clock \in BootTimes

Next ==
    \/ ConnectWifi
    \/ WifiErrorLoop
    \/ StartupSync
    \/ LoopTop
    \/ Poll
    \/ UpdateDisplay
    \/ ButtonA
    \/ ButtonB
    \/ ButtonD
    \/ Sleep

Spec == Init /\ [][Next]_vars

\* ------------------------------------------------------------------------
\* Claims about the scheduling of fetches in run()
\* ------------------------------------------------------------------------
\* the loop iteration has ended: its sleep of line 1440 is over
TickEnded == h_op = "sleep"

\* the delay the claim expects after a fetch that ended with `ending`
ExpectedBackoff(ending) ==
    IF ending = "429" THEN BACKOFF_LONG ELSE BACKOFF_SHORT

\* C5 as stated: when the periodic fetch of a loop iteration started at
\* time t is answered 429 (503) and no manual trigger follows in that
\* iteration, fetch_due_at at the end of the iteration is at least t + 300
\* (t + 60).  run() line 1417 overwrites the deadline fetch_planes set, so
\* this does not hold.
C5_AsStated ==
    (/\ TickEnded
     /\ h_tick.periodic
     /\ ~h_tick.manual
     /\ h_fetch.ending \in {"429", "503"})
    => fetch_due_at >= h_fetch.periodic_at + ExpectedBackoff(h_fetch.ending)

\* C6 as stated: fetch_planes is not invoked, by the poll or by the manual
\* trigger, in a loop iteration whose local hour lies in the night window.
\* The poll tests the night_mode flag left by the previous iteration and
\* the manual trigger tests nothing, so this does not hold.
C6_AsStated ==
    h_op \in {"poll_fetch", "manual_fetch"}
    => ~NightHour(uk_localtime_hour(current_time))

\* C7: a manual trigger calls fetch_planes in the same loop iteration
\* whether or not fetch_due_at has been reached, and leaves fetch_due_at =
\* (time read after the fetch) + API_INTERVAL; a periodic fetch that
\* follows a manual one comes no earlier than API_INTERVAL after the time
\* read after the manual fetch.
C7_ManualTrigger ==
    [][ /\ (h_op' = "manual_fetch"
            => /\ pc = "button_d"
               /\ h_tick'.manual
               /\ last_api_update' = clock'
               /\ fetch_due_at' = clock' + API_INTERVAL)
        /\ (h_op' = "poll_fetch" /\ h_fetch.trigger = "manual"
            => current_time' >= last_api_update + API_INTERVAL) ]_vars

\* an early manual fetch was made and the next fetch, a periodic one, has
\* just been made
C7_Witness ==
    /\ h_op = "poll_fetch"
    /\ h_fetch.after_manual

MaxQueueLen == 5
\* frame intervals of behaviour explored
MaxFrames == 64
\* number of cycles whose frames are kept in h_frames.log
RotationCycles == 10

FrameHorizon == BootTime + MaxFrames * FRAME_INTERVAL

FrameWindow == RotationCycles * FRAME_CYCLE

FlightDigits == <<"1", "2", "3", "4", "5", "6", "7", "8", "9">>

\* the i-th flight of the queue
FrameFlight(i) ==
    Plane(<<"f", FlightDigits[i]>>, <<"B", "A", "W", FlightDigits[i]>>,
          9000, i, FALSE)

FrameQueue(len) == [i \in 1..len |-> FrameFlight(i)]

\* the route API is out of reach
FrameRouteResponses == { [kind |-> "exception"] }

\* what the log keeps for a frame counter value: the queue position drawn,
\* ClockDrawn for a clock frame of the rotation, OtherDrawn for anything
\* drawn outside the normal-frame code
ClockDrawn == 0 - 1

OtherDrawn == 0 - 2

Drawn(out) ==
    IF ~out.normal THEN OtherDrawn
    ELSE IF out.decision.kind = "flight" THEN out.decision.index
    ELSE ClockDrawn

\* the last n entries of s
LastN(s, n) == IF Len(s) <= n THEN s ELSE SubSeq(s, Len(s) - n + 1, Len(s))

\* update_display -> draw_info_display at the current time
FrameRender ==
    /\ \E out \in DrawOutcomes(clock, FrameRouteResponses, 0, FrameHorizon) :
          /\ DrawReturn(out)
          /\ h_render' = out.decision
          /\ h_arg' = IF out.decision.kind = "flight" THEN out.callsign
                      ELSE h_arg
          /\ h_result' = IF out.decision.kind = "flight"
                         THEN out.decision.route ELSE h_result
          /\ h_attempted' = (out.attempts # <<>>)
          /\ h_net' = IF out.attempts # <<>>
                      THEN DictPut(h_net, out.callsign,
                                   out.attempts[Len(out.attempts)])
                      ELSE h_net
          /\ h_frames' =
                [normal |-> out.normal,
                 log |-> IF out.st.frame_index # frame_index
                         THEN LastN(Append(h_frames.log,
                                           <<out.st.frame_index, Drawn(out)>>),
                                    FrameWindow)
                         ELSE h_frames.log]
    /\ h_op' = "draw_info_display"
    /\ UNCHANGED <<loopVars, schedVars, uiVars, fetchVars, trackerVars,
                   mergeObs, h_fetch, h_tick>>

\* the sleep of the loop between two display updates (line 1440) takes the
\* whole-second clock to the next second at most; the steps that leave it
\* where it is are the repeated FrameRender steps
FrameTimePasses ==
    /\ h_op = "draw_info_display"
    /\ clock + 1 <= FrameHorizon
    /\ clock' = clock + 1
    /\ h_op' = "frame_time_passes"
    /\ UNCHANGED <<loopVars, schedVars, uiVars, frameVars, fetchVars,
                   trackerVars, routeVars, mergeObs, routeObs, loopObs>>

\* a tracker after a successful fetch that left len flights in the queue,
\* with or without a plane-count overlay just requested
InitFrame ==
    /\ InitObserved
    /\ pc = "idle"
    /\ current_time = 0
    /\ cred_mode = "none"
    /\ clock = BootTime
    /\ \E len \in 1..MaxQueueLen :
          /\ display_queue = FrameQueue(len)
          /\ planes = SubSeq(FrameQueue(len), 1, Min(len, MAX_PLANES))
    /\ count_overlay_until \in {0, BootTime + COUNT_OVERLAY_SECONDS}
    /\ last_api_update = BootTime
    /\ wifi_connected = TRUE
    /\ auth_token = NoToken
    /\ token_expires = 0
    /\ fetching_data = FALSE
    /\ api_success = TRUE
    /\ last_logos_sync = BootTime
    /\ last_error_message = NoMessage
    /\ frame_index = 0
    /\ last_frame_time = 0
    /\ clock_only = FALSE
    /\ fetch_due_at = BootTime + API_INTERVAL
    /\ night_mode = FALSE
    /\ ntp_last_sync = BootTime
    /\ ntp_ok = TRUE
    /\ route_cache = EmptyDict
    /\ callsign_iata_cache = EmptyDict
    /\ route_last_fetch_times = EmptyDict

NextFrame ==
    \/ FrameRender
    \/ FrameTimePasses

SpecFrame == InitFrame /\ [][NextFrame]_vars

\* ------------------------------------------------------------------------
\* Claims about the frame rotation
\* ------------------------------------------------------------------------
\* the last 50 frame counter values logged
LastFifty == LastN(h_frames.log, 50)

\* how often queue position i was drawn at those counter values
TimesShown(i) ==
    Cardinality({ p \in 1..Len(LastFifty) : LastFifty[p][2] = i })

\* they are ten consecutive full cycles of a queue of length 5, every
\* frame of them drawn by the normal-frame code
TenFullCycles ==
    /\ Len(display_queue) = 5
    /\ Len(LastFifty) = 50
    /\ LastFifty[1][1] % 5 = 0
    /\ \A p \in 1..50 :
          /\ LastFifty[p][1] = LastFifty[1][1] + (p - 1)
          /\ LastFifty[p][2] # OtherDrawn

\* C9: over the 40 flight frames of 10 consecutive full cycles of a queue
\* of length 5, the numbers of times the queue positions 0..4 are drawn
\* differ by at most 1.
C9_BalancedRotation ==
    TenFullCycles
    => \A i, j \in 0..4 : TimesShown(i) - TimesShown(j) <= 1

\* ten full cycles were logged: 40 flight frames, 10 clock frames
C9_Witness ==
    /\ TenFullCycles
    /\ TimesShown(ClockDrawn) = 10
    /\ \A i \in 0..4 : TimesShown(i) > 0

\* C10: when draw_info_display gets to its normal-frame code with a
\* non-empty queue of length L at frame counter value n, it draws the clock
\* frame if n mod 5 = 4 and otherwise the flight at queue position
\* ((n div 5) * 4 + (n mod 5)) mod L, which lies in 0..L-1.
C10_FrameMapping ==
    (/\ h_op = "draw_info_display"
     /\ h_frames.normal
     /\ display_queue # <<>>)
    => LET n == frame_index
           L == Len(display_queue)
           i == ((n \div 5) * 4 + (n % 5)) % L
       IN  IF n % 5 = 4
           THEN h_render = ClockFrame
           ELSE /\ h_render.kind = "flight"
                /\ h_render.index = i
                /\ i \in 0..(L - 1)
                /\ h_arg = norm_callsign(display_queue[i + 1].callsign)

\* a flight frame of a later cycle, where the position drawn differs from
\* the position within the cycle
C10_Witness ==
    /\ h_op = "draw_info_display"
    /\ h_frames.normal
    /\ h_render.kind = "flight"
    /\ Len(display_queue) = 3
    /\ frame_index = 12
    /\ h_render.index = 1

\* ------------------------------------------------------------------------
\* Specification of the render decision: draw_info_display called on a
\* tracker in any state its fields can be in
\* ------------------------------------------------------------------------
\* seconds of behaviour explored by the render specification
RenderMaxElapsed == 6
\* largest frame counter value at the start
RenderMaxFrame == 5

RenderHorizon == BootTime + RenderMaxElapsed

\* the sleep of the loop between two display updates (line 1440)
RenderTimePasses ==
    /\ h_op = "draw_info_display"
    /\ clock + 1 <= RenderHorizon
    /\ clock' = clock + 1
    /\ h_op' = "render_time_passes"
    /\ UNCHANGED <<loopVars, schedVars, uiVars, frameVars, fetchVars,
                   trackerVars, routeVars, mergeObs, routeObs, loopObs>>

\* a tracker some time after boot: a fetch may be marked in progress (the
\* flag stays set when fetch_planes returns early), the last fetch may have
\* succeeded or not, with or without a recorded error; the flight list is
\* empty or not; the queue holds up to two flights (it is empty next to a
\* non-empty flight list when merge_display_queue raised)
InitRender ==
    /\ InitObserved
    /\ pc = "idle"
    /\ current_time = 0
    /\ cred_mode = "none"
    /\ clock = BootTime
    /\ display_queue \in {<<>>, FrameQueue(1), FrameQueue(2)}
    /\ planes \in {<<>>, FrameQueue(1)}
    /\ count_overlay_until \in {0, BootTime + COUNT_OVERLAY_SECONDS}
    /\ last_api_update = BootTime
    /\ wifi_connected = TRUE
    /\ auth_token = NoToken
    /\ token_expires = 0
    /\ fetching_data \in BOOLEAN
    /\ api_success \in BOOLEAN
    /\ last_logos_sync = BootTime
    /\ last_error_message \in {NoMessage, UPDATE_ERROR}
    /\ frame_index \in 0..RenderMaxFrame
    /\ last_frame_time \in {0, BootTime}
    /\ clock_only \in BOOLEAN
    /\ fetch_due_at = BootTime + API_INTERVAL
    /\ night_mode = FALSE
    /\ ntp_last_sync = BootTime
    /\ ntp_ok = TRUE
    /\ route_cache = EmptyDict
    /\ callsign_iata_cache = EmptyDict
    /\ route_last_fetch_times = EmptyDict

NextRender ==
    \/ FrameRender
    \/ RenderTimePasses

SpecRender == InitRender /\ [][NextRender]_vars

\* ------------------------------------------------------------------------
\* Claims about the render decision
\* ------------------------------------------------------------------------
\* draw_info_display has just run
Rendered == h_op = "draw_info_display"

\* C11 as stated: whenever the display queue is empty the render decision
\* is the clock frame.  With an empty queue the code still draws the
\* loading indicator, the error message or the count overlay when their
\* conditions come first.
C11_AsStated ==
    (Rendered /\ display_queue = <<>>) => h_render = ClockFrame

\* C11: with an empty display queue the decision is the clock frame for
\* every frame counter value whenever clock-only mode is on or the code
\* gets past its earlier tests; before that, a set fetch-in-progress flag
\* gives the loading indicator, a successful fetch with an empty flight
\* list the clock frame, an unsuccessful one the error message (or the
\* loading indicator when none is recorded), and an active count overlay
\* the count frame.
C11_EmptyQueue ==
    (Rendered /\ display_queue = <<>>)
    => h_render =
          IF clock_only THEN ClockFrame
          ELSE IF fetching_data THEN LoadingFrame
          ELSE IF api_success /\ planes = <<>> THEN ClockFrame
          ELSE IF ~api_success /\ last_error_message # NoMessage
          THEN ErrorFrame(last_error_message)
          ELSE IF ~api_success THEN LoadingFrame
          ELSE IF count_overlay_until # 0 /\ clock < count_overlay_until
          THEN CountFrame(0)
          ELSE ClockFrame

\* the normal-frame code was reached with an empty queue at a frame counter
\* value that is not a clock position
C11_Witness ==
    /\ Rendered
    /\ display_queue = <<>>
    /\ h_frames.normal
    /\ frame_index % 5 = 2
    /\ h_render = ClockFrame

\* ------------------------------------------------------------------------
\* Specification of the token manager: get_auth_token called at arbitrary
\* times under each credential configuration
\* ------------------------------------------------------------------------
\* seconds explored before and after the long pause between calls
AuthMaxElapsed == 3
\* seconds a short-lived token is served from the cache
ShortServed == 2

\* a pause that ends ShortServed seconds before a token of the default
\* lifetime acquired at boot leaves the cache
AuthLongPause == TOKEN_DEFAULT_LIFETIME - TOKEN_MARGIN - ShortServed

\* the times the calls are made at: soon after boot, or after the pause
AuthBlockEnd(t) ==
    IF t <= BootTime + AuthMaxElapsed THEN BootTime + AuthMaxElapsed
    ELSE BootTime + AuthLongPause + AuthMaxElapsed

\* a token endpoint answer carrying access_token tok and expires_in
AuthGrant(tok, expires_in) ==
    [kind |-> "ok", token |-> tok, has_expires_in |-> TRUE,
     expires_in |-> expires_in]

\* behaviours of the token endpoint: the request raises, answers non-200,
\* answers 200 with a body that does not parse or that carries no token,
\* or grants a token with or without a declared lifetime (the body of the
\* username/password endpoint carries the token only)
AuthResponses(mode) ==
    { [kind |-> "exception"], [kind |-> "status"], [kind |-> "unparsable"],
      AuthOk(NoToken), AuthOk("tok1") }
    \cup (IF mode = "client"
          THEN {AuthGrant("tok2", TOKEN_MARGIN + ShortServed)} ELSE {})

\* the lifetime the server declared in a granting answer, 1800 if none
ServerLifetime(aresp) ==
    IF aresp.has_expires_in THEN aresp.expires_in ELSE 1800

\* get_auth_token called directly at the current time
GetAuthTokenCall(aresp, delay) ==
    LET a == get_auth_token(auth_token, token_expires, clock, cred_mode,
                            aresp, delay)
        granted == a.requested /\ a.result # NoToken
    IN  /\ clock + a.elapsed <= AuthBlockEnd(clock)
        /\ auth_token' = a.auth_token
        /\ token_expires' = a.token_expires
        /\ clock' = clock + a.elapsed
        /\ h_auth' = [result |-> a.result, requested |-> a.requested,
                      at |-> clock, tok |-> auth_token, exp |-> token_expires,
                      granted_at |-> IF granted THEN clock + a.elapsed
                                     ELSE h_auth.granted_at,
                      lifetime |-> IF granted THEN ServerLifetime(aresp)
                                   ELSE h_auth.lifetime]
        /\ h_op' = "get_auth_token"
        /\ UNCHANGED <<fetching_data, api_success, last_error_message,
                       cred_mode, loopVars, schedVars, uiVars, frameVars,
                       trackerVars, routeVars, mergeObs, routeObs, loopObs>>

\* a second passes between calls
AuthTimePasses ==
    /\ clock < AuthBlockEnd(clock)
    /\ clock' = clock + 1
    /\ h_op' = "auth_time_passes"
    /\ UNCHANGED <<loopVars, schedVars, uiVars, frameVars, fetchVars,
                   trackerVars, routeVars, mergeObs, routeObs, loopObs>>

\* a long time passes between calls
AuthLongTimePasses ==
    /\ clock <= BootTime + AuthMaxElapsed
    /\ clock' = clock + AuthLongPause
    /\ h_op' = "auth_long_time_passes"
    /\ UNCHANGED <<loopVars, schedVars, uiVars, frameVars, fetchVars,
                   trackerVars, routeVars, mergeObs, routeObs, loopObs>>

InitAuth ==
    /\ InitTracker
    /\ InitObserved
    /\ pc = "idle"
    /\ current_time = 0
    /\ cred_mode \in CredModes
    /\ clock = BootTime

NextAuth ==
    \/ \E aresp \in AuthResponses(cred_mode), d \in 0..MaxNetDelay :
          GetAuthTokenCall(aresp, d)
    \/ AuthTimePasses
    \/ AuthLongTimePasses

SpecAuth == InitAuth /\ [][NextAuth]_vars

\* ------------------------------------------------------------------------
\* Claims about the token manager
\* ------------------------------------------------------------------------
\* get_auth_token has just returned
TokenCalled == h_op = "get_auth_token"

\* C14: a call that finds a cached token at a time before its stored
\* expiry returns that token, makes no request (no time passes in it) and
\* leaves the token and the expiry as they were.
C14_CachedToken ==
    (TokenCalled /\ h_auth.tok # NoToken /\ h_auth.at < h_auth.exp)
    => /\ h_auth.result = h_auth.tok
       /\ ~h_auth.requested
       /\ clock = h_auth.at
       /\ auth_token = h_auth.tok
       /\ token_expires = h_auth.exp

\* a call in the last second before the stored expiry was served from the
\* cache
C14_Witness ==
    /\ TokenCalled
    /\ h_auth.tok # NoToken
    /\ h_auth.at = h_auth.exp - 1
    /\ h_auth.result = h_auth.tok

\* C15 as stated: when an acquisition attempt fails, get_auth_token returns
\* none and no token value remains stored.
C15_AsStated ==
    (TokenCalled /\ h_auth.requested /\ h_auth.result = NoToken)
    => auth_token = NoToken

HttpOkFailing(ss, k) == [kind |-> "ok", states |-> ss, fail_at |-> k]

\* behaviours of the position API: the request raises, memory runs out in
\* the request, in the decoding of the body or in the scan of the records,
\* the body is read, or the status is 401, 403 or 500
FetchHttpResponses ==
    { [kind |-> "exception"], [kind |-> "memory_error"],
      [kind |-> "json_memory_error"],
      HttpOkFailing(<<sv_BAW1, sv_KLM2>>, 2), HttpOk(<<sv_BAW1, sv_KLM2>>),
      HttpStatus(401), HttpStatus(403), HttpStatus(500) }

\* seconds of behaviour explored by the fetch specification
FetchMaxElapsed == 2

FetchHorizon == BootTime + FetchMaxElapsed

\* fetch_planes called directly at the current time
FetchPlanesCall(aresp, basic_ok, http, delay) ==
    LET out == fetch_planes(CurrentFetchState, clock, cred_mode, aresp, 0,
                            basic_ok, http, delay)
    IN  /\ clock + out.elapsed <= FetchHorizon
        /\ FetchReturn(out)
        /\ fetch_due_at' = out.st.fetch_due_at
        /\ clock' = clock + out.elapsed
        /\ h_fetch' = [NoFetch EXCEPT !.trigger = "direct",
                                      !.ending = out.ending]
        /\ h_op' = "fetch_planes"
        /\ UNCHANGED <<loopVars, last_api_update, night_mode, uiVars,
                       frameVars, routeVars, routeObs, h_render, h_tick,
                       h_frames>>

\* the sleep of the loop after a display update (line 1440)
FetchTimePasses ==
    /\ h_op = "draw_info_display"
    /\ clock + 1 <= FetchHorizon
    /\ clock' = clock + 1
    /\ h_op' = "fetch_time_passes"
    /\ UNCHANGED <<loopVars, schedVars, uiVars, frameVars, fetchVars,
                   trackerVars, routeVars, mergeObs, routeObs, loopObs>>

InitFetch ==
    /\ InitTracker
    /\ InitObserved
    /\ pc = "idle"
    /\ current_time = 0
    /\ cred_mode \in CredModes
    /\ clock = BootTime

NextFetch ==
    \/ \E aresp \in (IF NeedsToken(clock) THEN MainAuthResponses
                      ELSE {[kind |-> "exception"]}),
          basic_ok \in (IF NeedsToken(clock) /\ cred_mode = "user"
                        THEN BOOLEAN ELSE {TRUE}),
          http \in FetchHttpResponses :
          FetchPlanesCall(aresp, basic_ok, http, 0)
    \/ FrameRender
    \/ FetchTimePasses

SpecFetch == InitFetch /\ [][NextFetch]_vars

\* ------------------------------------------------------------------------
\* Claims about failed fetches
\* ------------------------------------------------------------------------
\* fetch_planes has just returned
Fetched == h_op = "fetch_planes"

\* C17: a fetch that ends with status 401 or 403 runs to its end and leaves
\* no token and expiry 0; the next call of get_auth_token (the one of the
\* next fetch, with credentials configured) finds no token and asks the
\* token endpoint.
C17_Invalidate ==
    [][ /\ (h_op' = "fetch_planes" /\ h_fetch'.ending \in {"401", "403"})
           => /\ auth_token' = NoToken
              /\ token_expires' = 0
              /\ ~fetching_data'
        /\ (h_fetch.ending \in {"401", "403"} /\ h_op' = "fetch_planes"
            /\ cred_mode # "none")
           => /\ h_auth'.tok = NoToken
              /\ h_auth'.requested
      ]_vars

\* a fetch sent a cached token, got 401 and left no token
C17_Witness ==
    /\ Fetched
    /\ h_fetch.ending = "401"
    /\ h_auth.tok # NoToken
    /\ ~h_auth.requested
    /\ auth_token = NoToken

MemoryEndings == {"memory_error", "json_memory_error", "scan_memory_error"}

\* C18 as stated: a fetch in which memory ran out returns with the error
\* recorded and with no flight of that response in the flight list.
C18_AsStated ==
    (Fetched /\ h_fetch.ending \in MemoryEndings)
    => /\ last_error_message = UPDATE_ERROR
       /\ planes = <<>>

\* C19 as stated: after a fetch that failed by memory exhaustion or by an
\* exception, every render decision made outside clock-only mode before the
\* next fetch is the error message with the recorded code.
C19_AsStated ==
    ( /\ Rendered
      /\ h_fetch.ending \in MemoryEndings \cup {"exception"}
      /\ ~clock_only )
    => h_render = ErrorFrame(UPDATE_ERROR)

\* ------------------------------------------------------------------------
\* The main loop under fair scheduling: the loop keeps taking its steps
\* and its sleep of line 1440 keeps letting time pass.  Explored with and
\* without client credentials, with no flight in range and buttons A and B
\* left alone (neither takes part in the scheduling of fetches).
\* ------------------------------------------------------------------------
LiveCredModes == {"none", "client"}

LiveEnv ==
    /\ ~clock_only
    /\ count_overlay_until = 0
    /\ display_queue = <<>>

InitLive ==
    /\ InitTracker
    /\ InitObserved
    /\ pc = "connect"
    /\ current_time = 0
    /\ cred_mode \in LiveCredModes
    /\ clock \in BootTimes

\* the sleep at the end of a loop iteration takes time
SleepAdvances == Sleep /\ clock' > clock

\* run() executes its statements one after the other: no step of the loop
\* is postponed for ever.  For Poll, UpdateDisplay and ButtonD, which are
\* enabled exactly when the loop is at their position, weak fairness is
\* written with that enabling condition.
LoopRuns ==
    /\ WF_vars(ConnectWifi)
    /\ WF_vars(StartupSync)
    /\ WF_vars(LoopTop)
    /\ []<>(pc # "poll")
    /\ []<>(pc # "display")
    /\ WF_vars(ButtonA)
    /\ WF_vars(ButtonB)
    /\ []<>(pc # "button_d")
    /\ WF_vars(Sleep)

NextLive ==
    \/ ConnectWifi /\ LiveEnv'
    \/ WifiErrorLoop /\ LiveEnv'
    \/ StartupSync /\ LiveEnv'
    \/ LoopTop /\ LiveEnv'
    \/ Poll /\ LiveEnv'
    \/ UpdateDisplay /\ LiveEnv'
    \/ ButtonA /\ LiveEnv'
    \/ ButtonB /\ LiveEnv'
    \/ ButtonD /\ LiveEnv'
    \/ Sleep /\ LiveEnv'

SpecLive ==
    /\ InitLive
    /\ [][NextLive]_vars
    /\ LoopRuns
    /\ SF_vars(SleepAdvances)

\* ------------------------------------------------------------------------
\* Claims about the loop after a failed fetch
\* ------------------------------------------------------------------------
FetchOps == {"poll_fetch", "manual_fetch"}

\* a loop iteration has ended, the last fetch failed, and the time at which
\* the next one is due lies within the explored time, which ends by day
FailedFetchPending ==
    /\ TickEnded
    /\ h_fetch.ending \notin {"none", "ok"}
    /\ fetch_due_at <= Horizon
    /\ ~NightHour(uk_localtime_hour(Horizon))

\* C20: fetch_planes returns to the loop however it ends (the loop goes on
\* to its next step), and after a failed fetch (a non-2xx status, an
\* exception, a failed token acquisition) the loop, ticking fairly with
\* time advancing, calls fetch_planes again once the due time is reached
\* by day.
C20_LoopRecovers ==
    /\ [](h_op \in FetchOps => pc \in {"display", "sleep"})
    /\ (FailedFetchPending ~> (h_op \in FetchOps))

\* a loop iteration ended after a fetch that failed in the token
\* acquisition
C20_Witness ==
    /\ FailedFetchPending
    /\ h_fetch.ending = "auth_failed"
    /\ clock < fetch_due_at

\* ------------------------------------------------------------------------
\* Regional time: _last_sunday, _bst_bounds_epoch, _uk_localtime
\* ------------------------------------------------------------------------
\* the year the clock is read in
TestYear == 2024
\* seconds explored from each starting instant
TimeMaxElapsed == 130

IsLeap(y) == (y % 4 = 0 /\ y % 100 # 0) \/ y % 400 = 0

DaysInMonth(y, m) ==
    IF m = 2 THEN (IF IsLeap(y) THEN 29 ELSE 28)
    ELSE IF m \in {4, 6, 9, 11} THEN 30 ELSE 31

\* leap years before year y
LeapsBefore(y) == (y - 1) \div 4 - (y - 1) \div 100 + (y - 1) \div 400

\* days from 1 January 1970 to 1 January of year y
DaysBeforeYear(y) == 365 * (y - 1970) + LeapsBefore(y) - LeapsBefore(1970)

RECURSIVE DaysBeforeMonth(_, _)
DaysBeforeMonth(y, m) ==
    IF m = 1 THEN 0 ELSE DaysBeforeMonth(y, m - 1) + DaysInMonth(y, m - 1)

\* time.mktime on the fields (year, month, mday, hour, minute, second)
mktime(y, mo, d, h, mi, sec) ==
    (DaysBeforeYear(y) + DaysBeforeMonth(y, mo) + (d - 1)) * 86400
    + h * 3600 + mi * 60 + sec

\* time.localtime(epoch): <<year, month, mday, hour, minute, second,
\* weekday (0 = Monday), yearday>>
localtime(epoch) ==
    LET days == epoch \div 86400
        secs == epoch % 86400
        y    == CHOOSE yy \in 1970..(TestYear + 1) :
                   DaysBeforeYear(yy) <= days /\ days < DaysBeforeYear(yy + 1)
        yd   == days - DaysBeforeYear(y)
        mo   == CHOOSE m \in 1..12 :
                   /\ DaysBeforeMonth(y, m) <= yd
                   /\ yd < DaysBeforeMonth(y, m) + DaysInMonth(y, m)
    IN  <<y, mo, yd - DaysBeforeMonth(y, mo) + 1, secs \div 3600,
          (secs % 3600) \div 60, secs % 60, (days + 3) % 7, yd + 1>>

\* _last_sunday: the first day from 31 down to 25 that is a Sunday
RECURSIVE LastSundayFrom(_, _, _)
LastSundayFrom(year, month, day) ==
    IF day < 25 THEN 31
    ELSE IF localtime(mktime(year, month, day, 0, 0, 0))[7] = 6 THEN day
    ELSE LastSundayFrom(year, month, day - 1)

last_sunday(year, month) == LastSundayFrom(year, month, 31)

\* _bst_bounds_epoch; failed: the calendar construction raises
bst_bounds_epoch(year, failed) ==
    IF failed THEN <<0, 0>>
    ELSE <<mktime(year, 3, last_sunday(year, 3), 1, 0, 0),
           mktime(year, 10, last_sunday(year, 10), 1, 0, 0)>>

\* a slip in the summer-time test: "<" for "<=" at the start
InBstLate(start_epoch, end_epoch, epoch) ==
    start_epoch # 0 /\ end_epoch # 0 /\ start_epoch < epoch
    /\ epoch < end_epoch

\* line 426: start_epoch and end_epoch and start_epoch <= epoch < end_epoch
InBst(start_epoch, end_epoch, epoch) ==
    start_epoch # 0 /\ end_epoch # 0 /\ start_epoch <= epoch
    /\ epoch < end_epoch

\* _uk_localtime when the clock reads `now`; fails: which of the calendar
\* constructions raise ("epoch": mktime of the fields read, "bounds": the
\* summer-time bounds, "back": localtime of the adjusted epoch)
uk_localtime(now, fails) ==
    LET tm_utc == localtime(now)
        epoch  == IF "epoch" \in fails THEN 0
                  ELSE mktime(tm_utc[1], tm_utc[2], tm_utc[3], tm_utc[4],
                              tm_utc[5], tm_utc[6])
        bounds == bst_bounds_epoch(tm_utc[1], "bounds" \in fails)
        offset == IF InBst(bounds[1], bounds[2], epoch) THEN 3600 ELSE 0
    IN  IF "back" \in fails THEN tm_utc ELSE localtime(epoch + offset)

\* ------------------------------------------------------------------------
\* Specification of _uk_localtime called at instants around the two
\* summer-time changes of the year and in mid winter and mid summer
\* ------------------------------------------------------------------------
\* the instant hours:minutes:00 UTC of the last Sunday of a month of
\* TestYear, found by looking at every day of the month
LastSundayInstant(month, hours, minutes) ==
    LET sundays == { d \in 1..DaysInMonth(TestYear, month) :
                       (DaysBeforeYear(TestYear)
                        + DaysBeforeMonth(TestYear, month) + d - 1 + 3) % 7
                       = 6 }
        last == CHOOSE d \in sundays : \A e \in sundays : e <= d
    IN  mktime(TestYear, month, last, hours, minutes, 0)

TimeStarts ==
    { LastSundayInstant(3, 1, 0) - 65, LastSundayInstant(10, 1, 0) - 65,
      mktime(TestYear, 1, 15, 12, 0, 0),
      mktime(TestYear, 7, 15, 23, 30, 0), mktime(TestYear, 12, 31, 23, 58, 0) }

\* the starting instant of the behaviour a state belongs to
TimeStartOf(t) ==
    CHOOSE b \in TimeStarts : b <= t /\ t <= b + TimeMaxElapsed

CalendarFailures == SUBSET {"epoch", "bounds", "back"}

\* _uk_localtime called at the current instant
UkLocaltimeCall(fails) ==
    /\ h_arg' = fails
    /\ h_result' = uk_localtime(clock, fails)
    /\ h_op' = "uk_localtime"
    /\ UNCHANGED <<clock, trackerVars, routeVars, mergeObs, h_attempted,
                   h_net, idleVars>>

\* time passes between calls; what the last call returned is forgotten
TimeAdvances(d) ==
    /\ clock + d <= TimeStartOf(clock) + TimeMaxElapsed
    /\ clock' = clock + d
    /\ h_op' = "time_advances"
    /\ h_arg' = <<>>
    /\ h_result' = None
    /\ UNCHANGED <<trackerVars, routeVars, mergeObs, h_attempted, h_net,
                   idleVars>>

InitTime ==
    /\ InitIdle
    /\ clock \in TimeStarts

NextTime ==
    \/ \E fails \in CalendarFailures : UkLocaltimeCall(fails)
    \/ \E d \in {1, 5, 60} : TimeAdvances(d)

SpecTime == InitTime /\ [][NextTime]_vars

\* ------------------------------------------------------------------------
\* Claims about regional time
\* ------------------------------------------------------------------------
\* _uk_localtime has just returned, no calendar construction having failed
LocalTimeRead == h_op = "uk_localtime" /\ h_arg = {}

\* C21: the local time returned at 00:59 UTC of the last Sunday of March is
\* the UTC time and at 01:01 UTC is UTC plus one hour; the returned time is
\* UTC plus one hour exactly from 01:00 UTC of the last Sunday of March to
\* just before 01:00 UTC of the last Sunday of October, and UTC otherwise.
C21_SummerTime ==
    LocalTimeRead =>
        /\ clock = LastSundayInstant(3, 0, 59) => h_result = localtime(clock)
        /\ clock = LastSundayInstant(3, 1, 1)
           => h_result = localtime(clock + 3600)
        /\ h_result =
              IF /\ LastSundayInstant(3, 1, 0) <= clock
                 /\ clock < LastSundayInstant(10, 1, 0)
              THEN localtime(clock + 3600)
              ELSE localtime(clock)

\* the time was read at exactly 01:00:00 UTC of the last Sunday of March
\* and came back as 02:00:00
C21_Witness ==
    /\ LocalTimeRead
    /\ clock = LastSundayInstant(3, 1, 0)
    /\ h_result[4] = 2
    /\ h_result[5] = 0

\* C22 as stated: whichever calendar construction fails, _uk_localtime
\* returns the unadjusted UTC fields of the current instant.
C22_AsStated ==
    (h_op = "uk_localtime" /\ h_arg # {}) => h_result = localtime(clock)

\* ------------------------------------------------------------------------
\* Specification of the record filter: fetch_planes called on answers of
\* the position API whose records vary in every field the filter reads
\* ------------------------------------------------------------------------
\* longest `states` array of an answer
MaxStates == 3

id_c3 == <<"c","3">>

cs_N123 == <<"N","1","2","3">>

sv_RYR3 == StateVector(id_c3, cs_RYR3, TRUE, 5, 10000, FALSE)

\* records of one aircraft differing in callsign (padded, of a listed
\* carrier, of none, null), position, distance, altitude and ground flag
ScanVectors ==
    { StateVector(id_a1, cs, pos, dist, alt, gnd) :
        cs \in {<<"B","A","W","1"," "," ">>, cs_KLM2, cs_N123, None},
        pos \in BOOLEAN, dist \in {3, SEARCH_RADIUS_KM + 5},
        alt \in {0 - 100, 2000, 9000, ALTITUDE_FILTER_MAX + 1000},
        gnd \in BOOLEAN }

RECURSIVE ListsOver(_, _)
ListsOver(S, n) ==
    IF n = 0 THEN {<<>>}
    ELSE LET shorter == ListsOver(S, n - 1)
         IN  shorter \cup { Append(l, v) : l \in shorter, v \in S }

\* the `states` arrays: one record of any kind, or up to MaxStates records
\* of three aircraft that pass the filter
ScanLists ==
    { <<v>> : v \in ScanVectors }
    \cup ListsOver({sv_BAW1, sv_KLM2, sv_RYR3}, MaxStates)

\* fetch_planes called directly, the position API answering 200 with ss
ScanCall(ss) ==
    LET out == fetch_planes(CurrentFetchState, clock, cred_mode,
                            [kind |-> "exception"], 0, TRUE, HttpOk(ss), 0)
    IN  /\ FetchReturn(out)
        /\ fetch_due_at' = out.st.fetch_due_at
        /\ h_fetch' = [NoFetch EXCEPT !.trigger = "direct",
                                      !.ending = out.ending]
        /\ h_arg' = ss
        /\ h_op' = "fetch_planes"
        /\ UNCHANGED <<clock, loopVars, last_api_update, night_mode, uiVars,
                       frameVars, routeVars, h_result, h_attempted, h_net,
                       h_render, h_tick, h_frames>>

InitScan ==
    /\ InitTracker
    /\ InitObserved
    /\ pc = "idle"
    /\ current_time = 0
    /\ cred_mode = "none"
    /\ clock = BootTime

NextScan == \E ss \in ScanLists : ScanCall(ss)

SpecScan == InitScan /\ [][NextScan]_vars

\* ------------------------------------------------------------------------
\* Claims about the cap and the record filter
\* ------------------------------------------------------------------------
\* fetch_planes has just scanned the answer h_arg
Scanned == h_op = "fetch_planes" /\ h_fetch.ending = "ok"

\* C23: the flight list and the display queue never hold more than
\* MAX_PLANES entries, however many records of the answer pass the filter.
C23_Cap ==
    /\ Len(planes) <= MAX_PLANES
    /\ Len(display_queue) <= MAX_PLANES

\* an answer with more than MAX_PLANES passing records has been scanned and
\* the flight list and the queue are full
C23_Witness ==
    /\ Scanned
    /\ Len(h_arg) > MAX_PLANES
    /\ \A i \in 1..Len(h_arg) : h_arg[i] \in {sv_BAW1, sv_KLM2, sv_RYR3}
    /\ \A i, j \in 1..Len(h_arg) : i # j => h_arg[i] # h_arg[j]
    /\ Len(planes) = MAX_PLANES
    /\ Len(display_queue) = MAX_PLANES

\* the acceptance test as the claim states it
StatedAccept(state) ==
    /\ state.has_position
    /\ state.distance <= SEARCH_RADIUS_KM
    /\ ALTITUDE_FILTER_MIN <= state.altitude
    /\ state.altitude <= ALTITUDE_FILTER_MAX
    /\ (SHOW_GROUND_AIRCRAFT \/ ~state.on_ground)
    /\ Upper(Prefix3(Strip(state.callsign))) \in commercial_airlines

\* C24 as stated: a record scanned before the cap is reached is accepted
\* exactly when it has a position within the radius, an altitude inside
\* the configured band, is not on the ground (unless ground aircraft are
\* shown) and carries the code of a listed carrier.
C24_AsStated ==
    (Scanned /\ Len(h_arg) = 1) =>
        ((planes # <<>>) <=> StatedAccept(h_arg[1]))

\* ------------------------------------------------------------------------
\* Specification of the logo resync of run(): the loop from boot, and the
\* loop found at the top of an iteration about LOGOS_SYNC_INTERVAL after
\* its last resync (no flight in range since, the last fetch a success
\* or a failure that put the next one off)
\* ------------------------------------------------------------------------
\* seconds around the end of the interval at which the loop is found
SyncSpan == 2

InitSync ==
    /\ InitObserved
    /\ cred_mode = "none"
    /\ clock \in BootTimes
    /\ \/ /\ InitTracker
          /\ pc = "connect"
          /\ current_time = 0
       \/ \E back \in 0..SyncSpan, put_off \in BOOLEAN :
             /\ pc = "top"
             /\ current_time = clock - 1
             /\ wifi_connected = TRUE
             /\ ntp_ok = TRUE
             /\ ntp_last_sync = clock - LOGOS_SYNC_INTERVAL
             /\ last_logos_sync = clock - LOGOS_SYNC_INTERVAL - 1 + back
             /\ last_api_update = clock - 1
             /\ fetch_due_at = IF put_off THEN clock + BACKOFF_SHORT
                               ELSE clock
             /\ night_mode = NightHour(uk_localtime_hour(clock - 1))
             /\ api_success = ~put_off
             /\ last_error_message =
                   IF put_off THEN UPDATE_ERROR ELSE NoMessage
             /\ planes = <<>>
             /\ display_queue = <<>>
             /\ fetching_data = FALSE
             /\ auth_token = NoToken
             /\ token_expires = 0
             /\ frame_index = 0
             /\ last_frame_time = clock - 1
             /\ clock_only = FALSE
             /\ count_overlay_until = 0
             /\ route_cache = EmptyDict
             /\ callsign_iata_cache = EmptyDict
             /\ route_last_fetch_times = EmptyDict

NextSync ==
    \/ ConnectWifi /\ LiveEnv'
    \/ WifiErrorLoop /\ LiveEnv'
    \/ StartupSync /\ LiveEnv'
    \/ LoopTop /\ LiveEnv'
    \/ Poll /\ LiveEnv'
    \/ UpdateDisplay /\ LiveEnv'
    \/ ButtonA /\ LiveEnv'
    \/ ButtonB /\ LiveEnv'
    \/ ButtonD /\ LiveEnv'
    \/ Sleep /\ LiveEnv'

SpecSync == InitSync /\ [][NextSync]_vars

\* ------------------------------------------------------------------------
\* Claims about the logo resync
\* ------------------------------------------------------------------------
\* the step is the top of a loop iteration
TickStarts == pc = "top" /\ pc' = "poll"

ResyncOps == {"loop_top_resync", "loop_top_resync_failed"}

\* C25: a loop iteration calls the logo resync exactly when more than
\* LOGOS_SYNC_INTERVAL seconds have passed since last_logos_sync, whatever
\* the night flag, fetch_due_at and the last fetch's outcome are; whether
\* the resync returns or raises, last_logos_sync becomes the iteration's
\* time, and otherwise it is left alone.
C25_Resync ==
    [][TickStarts =>
         LET elapsed == current_time' - last_logos_sync
         IN  /\ (h_op' \in ResyncOps) <=> (elapsed > LOGOS_SYNC_INTERVAL)
             /\ last_logos_sync' =
                   IF elapsed > LOGOS_SYNC_INTERVAL THEN current_time'
                   ELSE last_logos_sync]_vars

\* a resync raised exactly one second after the interval ended, in night
\* mode or with the next fetch put off, and the timestamp is the
\* iteration's time
C25_Witness ==
    /\ h_op = "loop_top_resync_failed"
    /\ last_logos_sync = current_time
    /\ current_time > BACKOFF_SHORT
    /\ night_mode \/ fetch_due_at > current_time

\* ------------------------------------------------------------------------
\* Claims about update_display in the loop
\* ------------------------------------------------------------------------
\* the step is the call of update_display of a loop iteration
DisplayUpdates == pc = "display" /\ pc' = "button_a"

\* the hour of the local time read at time t is inside the night window
InNightWindow(t) ==
    LET hour == uk_localtime_hour(t)
    IN  NIGHT_START_HOUR <= hour /\ hour < NIGHT_END_HOUR

\* C26: when the local hour read by update_display is inside the night
\* window, what is drawn is the clock, whatever the last fetch's outcome,
\* the error message, the fetching flag, the count overlay, the clock-only
\* toggle and the display queue are.
C26_NightClock ==
    [][(DisplayUpdates /\ InNightWindow(clock)) => h_render' = ClockFrame]_vars

\* update_display drew the clock by night with a flight in the queue, the
\* count overlay running and clock-only mode off
C26_Witness ==
    /\ h_op = "update_display"
    /\ InNightWindow(clock)
    /\ h_render = ClockFrame
    /\ display_queue # <<>>
    /\ count_overlay_until > clock
    /\ ~clock_only

\* C29 as stated: the fetch-due test of a loop iteration reads a night
\* flag evaluated in that iteration from the current local hour, before
\* the test and before the display is drawn; it never reads a flag left by
\* an earlier iteration or by __init__.
C29_AsStated ==
    pc = "poll" => (night_mode <=> InNightWindow(current_time))

\* C30 as stated: every call of update_display made FRAME_INTERVAL seconds
\* or more after the last advance of the frame counter advances it by one,
\* whatever is drawn (the night clock, clock-only mode, the error or
\* loading screen, the count overlay).
C30_AsStated ==
    [][(DisplayUpdates /\ clock - last_frame_time >= FRAME_INTERVAL)
         => frame_index' = frame_index + 1]_vars

\* ------------------------------------------------------------------------
\* Claims about get_display_callsign
\* ------------------------------------------------------------------------
\* the spelling s trimmed and in upper case
TrimUpper(s) == Upper(Strip(s))

\* C27: get_display_callsign on a non-empty callsign returns the cached
\* preferred callsign when, as the call returns, its age is at most
\* ROUTE_TTL, and the trimmed upper-cased input otherwise; it never returns
\* a preferred callsign older than ROUTE_TTL.
C27_DisplayCallsign ==
    (h_op = "get_display_callsign" /\ h_arg # <<>>) =>
        LET norm == TrimUpper(h_arg)
            ic   == callsign_iata_cache
        IN  h_result =
               IF norm \in DOMAIN ic /\ clock - ic[norm][2] <= ROUTE_TTL
               THEN ic[norm][1]
               ELSE norm

\* a preferred callsign of age exactly ROUTE_TTL was returned for the
\* spelling with a leading blank and lower case
C27_Witness ==
    /\ h_op = "get_display_callsign"
    /\ h_arg # TrimUpper(h_arg)
    /\ TrimUpper(h_arg) \in DOMAIN callsign_iata_cache
    /\ clock - callsign_iata_cache[TrimUpper(h_arg)][2] = ROUTE_TTL
    /\ h_result = callsign_iata_cache[TrimUpper(h_arg)][1]

\* ------------------------------------------------------------------------
\* Specification of get_display_callsign called for one spelling of a
\* callsign and then for another
\* ------------------------------------------------------------------------
\* longest time between the return of the first call and the second call
MaxApart == 4

\* get_display_callsign(first) and then, `wait` seconds after its return,
\* get_display_callsign(second).  h_arg: the two spellings; h_result: the
\* two results, the time from call to call and which call asked the route
\* API.
ResolvePair(first, second, wait, resp1, d1, resp2, d2) ==
    \E out1 \in {get_display_callsign(CurrentRouteState, first, clock,
                                      resp1, d1)} :
    \E out2 \in {get_display_callsign(out1.rs, second,
                                      clock + out1.elapsed + wait,
                                      resp2, d2)} :
       LET then == clock + out1.elapsed + wait
       IN  /\ then + out2.elapsed <= RouteHorizon
           /\ clock' = then + out2.elapsed
           /\ route_cache' = out2.rs.route_cache
           /\ callsign_iata_cache' = out2.rs.callsign_iata_cache
           /\ route_last_fetch_times' = out2.rs.route_last_fetch_times
           /\ h_arg' = <<first, second>>
           /\ h_result' = [first |-> out1.result, second |-> out2.result,
                           apart |-> then - clock,
                           first_attempted |-> out1.attempted,
                           second_attempted |-> out2.attempted]
           /\ h_attempted' = (out1.attempted \/ out2.attempted)
           /\ h_op' = "resolve_pair"
           /\ UNCHANGED <<trackerVars, mergeObs, h_net, idleVars>>

\* behaviours of the route API: the request raises, or answers 200 with
\* an airport pair, with or without a preferred callsign
PairResponses ==
    { [kind |-> "exception"], RouteBody(ap_LHR, ap_JFK, iata_ba1),
      RouteBody(ap_LHR, ap_JFK, <<>>) }

NextSpell ==
    \E first \in RouteCallsigns, second \in RouteCallsigns,
       wait \in 0..MaxApart, resp1 \in PairResponses,
       d1 \in 0..MaxNetDelay, resp2 \in PairResponses :
       /\ first # second
       /\ ResolvePair(first, second, wait, resp1, d1, resp2, 0)

SpecSpell == InitRoute /\ [][NextSpell]_vars

\* ------------------------------------------------------------------------
\* Claims about spellings of one callsign
\* ------------------------------------------------------------------------
\* two spellings of one callsign have been resolved, the second call made
\* less than ROUTE_COOLDOWN after the first
PairInCooldown ==
    /\ h_op = "resolve_pair"
    /\ TrimUpper(h_arg[1]) = TrimUpper(h_arg[2])
    /\ h_result.apart < ROUTE_COOLDOWN

\* the three dictionaries hold at most the one key both spellings share
OneEntry ==
    /\ DOMAIN route_cache \subseteq {TrimUpper(h_arg[1])}
    /\ DOMAIN callsign_iata_cache \subseteq {TrimUpper(h_arg[1])}
    /\ DOMAIN route_last_fetch_times \subseteq {TrimUpper(h_arg[1])}

FetchMerges ==
    /\ h_op' \in FetchOps \cup {"fetch_planes"}
    /\ h_fetch'.ending = "ok"

\* C31: the display queue changes only in a step that is a successful
\* fetch; rendering (with its route and callsign lookups), buttons A and B,
\* night iterations, the logo resync and every failed or skipped fetch
\* leave it as it was.
C31_QueueWrites ==
    [][display_queue' # display_queue => FetchMerges]_vars

\* a fetch has failed and the queue still holds a flight
C31_Witness ==
    /\ h_op \in FetchOps
    /\ h_fetch.ending # "ok"
    /\ display_queue # <<>>

\* C32 as stated: every return of fetch_planes leaves fetching_data false.
C32_AsStated == Fetched => ~fetching_data

\* C33 as stated: a flight frame is drawn only when the last call of
\* fetch_planes succeeded and found a flight; after a failed call the
\* flight list is empty and api_success is false.
C33_AsStated ==
    /\ (Rendered /\ h_render.kind = "flight")
       => (h_fetch.ending = "ok" /\ planes # <<>>)
    /\ (Fetched /\ h_fetch.ending # "ok")
       => (planes = <<>> /\ ~api_success)

\* C34: after a merge, every queue entry whose key the previous queue had
\* is the previous queue's record, with no field taken from the fresh
\* record of that key.
C34_KeepsRecord ==
    h_op = "merge_display_queue" =>
        \A i \in 1..Len(display_queue) :
            key_of(display_queue[i]) \in KeysOf(h_merge_prev)
            => \E j \in 1..Len(h_merge_prev) :
                  h_merge_prev[j] = display_queue[i]

\* a merge kept an entry although the fresh list held other data (altitude,
\* distance) for its key
C34_Witness ==
    /\ h_op = "merge_display_queue"
    /\ \E i \in 1..Len(display_queue), j \in 1..Len(h_merge_arg) :
          /\ key_of(display_queue[i]) = key_of(h_merge_arg[j])
          /\ display_queue[i] # h_merge_arg[j]
          /\ \E k \in 1..Len(h_merge_prev) :
                h_merge_prev[k] = display_queue[i]
          /\ \A k \in 1..Len(h_merge_arg) :
                h_merge_arg[k] # display_queue[i]

\* ------------------------------------------------------------------------
\* Specification of the frame counter: display updates as time passes,
\* with button A pressed and fetches made between them
\* ------------------------------------------------------------------------
\* lines 1423-1426 between two display updates: SWITCH_A is pressed
SwitchA ==
    /\ clock_only' = ~clock_only
    /\ h_op' = "switch_a"
    /\ UNCHANGED <<clock, loopVars, schedVars, count_overlay_until, frameVars,
                   fetchVars, trackerVars, routeVars, mergeObs, routeObs,
                   loopObs>>

\* answers of the position API between display updates: no flight, one
CounterLists == {<<>>, <<sv_BAW1>>}

InitCounter ==
    /\ InitRender
    /\ frame_index = 0
    /\ ~fetching_data
    /\ last_error_message = NoMessage

NextCounter ==
    \/ FrameRender
    \/ RenderTimePasses
    \/ SwitchA
    \/ \E ss \in CounterLists : ScanCall(ss)

SpecCounter == InitCounter /\ [][NextCounter]_vars

NightSpanHours == 24

\* hours a configuration may name: midnight, the default end, and hours
\* of the morning, the middle of the day and the evening
ConfigHours == {0, 6, 8, 12, 22, 23}

\* update_display (lines 1337-1358) under the configured window
UpdateDisplayConfigured ==
    /\ night_mode' = NightWindow(h_arg[1], h_arg[2], uk_localtime_hour(clock))
    /\ IF night_mode'
       THEN /\ h_render' = ClockFrame
            /\ UNCHANGED <<clock, frameVars, routeVars>>
       ELSE \E out \in DrawOutcomes(clock, FrameRouteResponses, 0, clock) :
               /\ DrawReturn(out)
               /\ h_render' = out.decision
    /\ h_op' = "update_display"
    /\ UNCHANGED <<pc, current_time, wifi_connected, ntp_ok, ntp_last_sync,
                   last_logos_sync, fetch_due_at, last_api_update, uiVars,
                   fetchVars, trackerVars, mergeObs, routeObs, h_fetch,
                   h_tick, h_frames>>

\* the next hour of the day begins
NightHourPasses ==
    /\ clock + 3600 < NightSpanHours * 3600
    /\ clock' = clock + 3600
    /\ h_op' = "time"
    /\ UNCHANGED <<loopVars, schedVars, uiVars, frameVars, fetchVars,
                   trackerVars, routeVars, mergeObs, routeObs, h_render,
                   h_fetch, h_tick, h_frames>>

\* a tracker at midnight whose last fetch succeeded, under any window
InitNight ==
    /\ h_op = "init"
    /\ h_auth = NoAuth
    /\ h_merge_prev = <<>>
    /\ h_merge_arg = <<>>
    /\ h_result = None
    /\ h_attempted = FALSE
    /\ h_net = EmptyDict
    /\ h_render = LoadingFrame
    /\ h_fetch = NoFetch
    /\ h_tick = NoTickFetch
    /\ h_frames = NoFrames
    /\ pc = "idle"
    /\ current_time = 0
    /\ cred_mode = "none"
    /\ clock = 0
    /\ h_arg \in ConfigHours \X ConfigHours
    /\ \E n \in 0..1 :
          /\ display_queue = FrameQueue(n)
          /\ planes = FrameQueue(n)
    /\ count_overlay_until = 0
    /\ last_api_update = 0
    /\ wifi_connected = TRUE
    /\ auth_token = NoToken
    /\ token_expires = 0
    /\ fetching_data = FALSE
    /\ api_success = TRUE
    /\ last_logos_sync = 0
    /\ last_error_message = NoMessage
    /\ frame_index = 0
    /\ last_frame_time = 0
    /\ clock_only = FALSE
    /\ fetch_due_at = API_INTERVAL
    /\ night_mode = FALSE
    /\ ntp_last_sync = 0
    /\ ntp_ok = TRUE
    /\ route_cache = EmptyDict
    /\ callsign_iata_cache = EmptyDict
    /\ route_last_fetch_times = EmptyDict

NextNight ==
    \/ UpdateDisplayConfigured
    \/ NightHourPasses

SpecNight == InitNight /\ [][NextNight]_vars

\* ------------------------------------------------------------------------
\* Claims about the configured night window
\* ------------------------------------------------------------------------
\* C36: after a display update night mode is on exactly when the local
\* hour lies from the configured start hour up to, not including, the
\* configured end hour; under a window whose start hour is not below its
\* end hour it is off at every hour and the update draws the ordinary
\* display.
C36_ConfiguredWindow ==
    h_op = "update_display"
    => LET hour == (clock \div 3600) % 24
       IN  /\ night_mode <=> (h_arg[1] <= hour /\ hour < h_arg[2])
           /\ h_arg[1] >= h_arg[2] => ~night_mode

\* a display update in the hour before midnight under a window from 22 to
\* 6 left night mode off
C36_Witness ==
    /\ h_op = "update_display"
    /\ h_arg = <<22, 6>>
    /\ clock = 23 * 3600
    /\ ~night_mode

\* ------------------------------------------------------------------------
\* Claims about the WiFi error state
\* ------------------------------------------------------------------------
\* C37: once the connection attempt at startup has failed, every further
\* step is a pass of the WIFI ERROR loop: the program stays in that loop,
\* WiFi stays marked as not connected, and the tracker's fetch, token,
\* route and logo-sync state and their observations never change.
C37_WifiErrorStays ==
    [][pc = "wifi_error"
       => /\ pc' = "wifi_error"
          /\ h_op' = "wifi_error"
          /\ ~wifi_connected'
          /\ UNCHANGED <<last_logos_sync, ntp_last_sync, fetch_due_at,
                         last_api_update, fetchVars, trackerVars, routeVars,
                         mergeObs, routeObs, h_fetch, h_tick>>]_vars

\* the WIFI ERROR loop has run up to the end of the modelled time
C37_Witness ==
    /\ pc = "wifi_error"
    /\ h_op = "wifi_error"
    /\ ~wifi_connected
    /\ clock = Horizon
    /\ h_fetch = NoFetch

====
